---- MODULE Spec2Model ----
(***************************************************************************)
(* Ingest job pipeline of alogger: the job store (db.py), the merge        *)
(* cascade (pipeline.py) and the worker runtime (tui.py, service.py).      *)
(*                                                                         *)
(* The specifications share the variables:                                 *)
(*   SpecStore  callers running reserve_next_job / reserve_job_by_id       *)
(*              statement by statement against concurrent enqueues;       *)
(*   SpecUpdate one call of update_job_status on a table of jobs;          *)
(*   SpecSegments writers running replace_transcript_segments, each in    *)
(*              its own transaction;                                       *)
(*   SpecMerge  resolve_playback_media_path with its merge cascade, and    *)
(*              download_video's choice of the file it returns, over a     *)
(*              directory of split streams with every probe result;        *)
(*   SpecSelect the same calls over directories of all the containers the  *)
(*              selections rank;                                           *)
(*   SpecProbe  the two stream tests on one ffprobe invocation;            *)
(*   SpecRunCmd one call of run_cmd with its process;                      *)
(*   SpecProgress process_job_id_with_progress without and with a         *)
(*              progress callback;                                         *)
(*   Spec       one WorkerRuntime with its operator thread, one            *)
(*              IngesterService worker, the store and the file system,     *)
(*              started on a queue of one or two jobs;                     *)
(*   SpecNotify Spec with a webhook configured;                            *)
(*   SpecStoreErrors Spec with store calls that may raise;                 *)
(*   SpecStop   the WorkerRuntime and its operator on one job, with the    *)
(*              fairness of the threads and processes;                     *)
(*   SpecTranscribe one call of transcribe_video over every probe result;  *)
(*   SpecDashboard one call of get_dashboard_snapshot, SELECT by SELECT,   *)
(*              against concurrent writers;                                *)
(*   SpecSearch one call of search_transcript_segments over small tables   *)
(*              of jobs and segments;                                      *)
(*   SpecLive   Spec on queues of distinct urls, with the fairness of the  *)
(*              threads and processes.                                     *)
(***************************************************************************)
EXTENDS Integers, Sequences, FiniteSets, TLC

VARIABLES
    jobs,        \* ingest_jobs table: sequence of rows, row id = index
    clock,       \* utc_now_iso(), as a logical time
    dbLock,      \* holder of SQLite's write lock (0: free)
    cpc,         \* SpecStore: each caller's position in its claim call
    crow,        \* SpecStore: the row a caller's SELECT returned
    cop,         \* SpecStore: the call a caller is making
    upd,         \* SpecUpdate: a call of update_job_status, its arguments
    claimCount,  \* history: how often each job id was returned by a claim
    nextDone,    \* history: claim_next calls completed since the last enqueue
    cands,       \* SpecMerge: the files matching the content id, with what
                 \*   ffprobe and stat report for each
    preferred,   \* SpecMerge: resolve_playback_media_path's preferred_path
    mpc,         \* SpecMerge: position in resolve_playback_media_path, or
                 \*   in download_video after yt-dlp has exited zero
    attempts,    \* SpecMerge: the merge strategies run so far, in order
    lastOut,     \* SpecMerge: what the latest strategy's run and checks gave
    mresult,     \* SpecMerge: the path returned, or RAISED
    rt,          \* Spec: the WorkerRuntime object's fields
    th,          \* Spec: the worker thread: position in _loop, its locals
    proc,        \* Spec: the latest external process: handle and OS state
    op,          \* Spec: the operator (TUI) thread: position, its locals
    svc,         \* Spec: an IngesterService worker: position and job
    files,       \* Spec: media and transcript directories, per content id
    videos,      \* Spec: the videos table (content ids with a record)
    hist,        \* Spec: history of kills, failures and stages run, per job
    segs,        \* SpecSegments: transcript_segments, the committed rows
    fts,         \* SpecSegments: transcript_segments_fts, committed entries
    segSeq,      \* SpecSegments: AUTOINCREMENT's last id (sqlite_sequence)
    sw,          \* SpecSegments: each writer's replace_transcript_segments
                 \*   call: position, arguments, its transaction's tables
    segLast,     \* history: per content id, the list of the last call that
                 \*   committed
    notes,       \* history: the events _notify has emitted, per job
    probe,       \* SpecProbe: an ffprobe invocation and what the two stream
                 \*   tests made of it
    cmd,         \* SpecRunCmd: one call of run_cmd and its process
    sv,          \* SpecProgress: process_job_id_with_progress, run without
                 \*   and with a progress callback
    tr,          \* SpecTranscribe: one call of transcribe_video
    dash,        \* SpecDashboard: one call of get_dashboard_snapshot
    srch         \* SpecSearch: one call of search_transcript_segments

storeVars == <<jobs, clock, dbLock>>
callerVars == <<cpc, crow, cop, upd>>
storeHist == <<claimCount, nextDone>>

mergeVars == <<cands, preferred, mpc, attempts, lastOut, mresult>>

rtVars == <<rt, th, proc, op, svc, files, videos, hist>>

segVars == <<segs, fts, segSeq, sw, segLast>>

moreVars == <<tr, dash, srch>>

callVars == <<probe, cmd, sv, moreVars>>

vars ==
    <<storeVars, callerVars, storeHist, mergeVars, rtVars, segVars, callVars,
      notes>>

----------------------------------------------------------------------------
(* Bounds *)

MaxJobs == 2

Callers == {1, 2}

Priorities == {0, 1}

NULL == "null"

NoTime == 0

NoJob == 0

----------------------------------------------------------------------------
(* db.py: the ingest_jobs table *)

Statuses == {"queued", "downloading", "transcribing", "done", "failed"}

\* INSERT INTO ingest_jobs(source_url, status, priority, created_at). The
\* last two fields are history, not columns: how many times an UPDATE has
\* stored a timestamp in started_at and in finished_at.
NewJob(url, priority, now) ==
    [url |-> url, status |-> "queued", priority |-> priority,
     created_at |-> now, started_at |-> NoTime, finished_at |-> NoTime,
     error_text |-> NULL, video_id |-> NULL, local_video_path |-> NULL,
     transcript_json_path |-> NULL,
     started_writes |-> 0, finished_writes |-> 0]

JobIds(js) == 1..Len(js)

QueuedIds(js) == {i \in JobIds(js) : js[i].status = "queued"}

\* A plausible slip: newest first (created_at DESC)
SortsBeforeNewestFirst(js, i, k) ==
    \/ js[i].priority > js[k].priority
    \/ js[i].priority = js[k].priority /\ js[i].created_at > js[k].created_at
    \/ js[i].priority = js[k].priority /\ js[i].created_at = js[k].created_at
       /\ i < k

\* ORDER BY priority DESC, created_at ASC: row i comes before row k. Rows
\* that tie on both terms (all urls of one enqueue call share one created_at)
\* come out in the order SQLite's scan reaches them: ORDER BY with LIMIT sorts
\* through a b-tree keyed by (terms, arrival sequence), and both access paths
\* of this table (the rowid scan and idx_ingest_jobs_status_created) reach
\* rows of equal created_at in rowid order. The repository's db.py run on
\* SQLite 3.40.1 returns tied rows in rowid order.
SortsBefore(js, i, k) ==
    \/ js[i].priority > js[k].priority
    \/ js[i].priority = js[k].priority /\ js[i].created_at < js[k].created_at
    \/ js[i].priority = js[k].priority /\ js[i].created_at = js[k].created_at
       /\ i < k

\* The row "WHERE status = 'queued' ORDER BY priority DESC, created_at ASC
\* LIMIT 1" returns, as a set: empty when no row is queued.
FirstQueued(js) ==
    {i \in QueuedIds(js) :
        \A k \in QueuedIds(js) \ {i} : SortsBefore(js, i, k)}

MarkDownloadingKeepStartedAt(js, id, now) ==
    IF id \in JobIds(js) /\ js[id].status = "queued"
    THEN [js EXCEPT ![id].status = "downloading", ![id].error_text = NULL]
    ELSE js

\* UPDATE ingest_jobs SET status='downloading', started_at=?, error_text=NULL
\* WHERE id=? AND status='queued'
MarkDownloading(js, id, now) ==
    IF id \in JobIds(js) /\ js[id].status = "queued"
    THEN [js EXCEPT ![id].status = "downloading",
                    ![id].started_at = now,
                    ![id].error_text = NULL,
                    ![id].started_writes = @ + 1]
    ELSE js

\* Job(id=row["id"], url=row["source_url"], status="downloading",
\* priority=row["priority"]), built from the row the SELECT returned
ReturnedJob(js, id) ==
    [id |-> id, url |-> js[id].url, status |-> "downloading",
     priority |-> js[id].priority]

COALESCE(new, old) == IF new = NULL THEN old ELSE new

\* update_job_status's keyword arguments, all defaulting to None
NoFields ==
    [error_text |-> NULL, video_id |-> NULL, local_video_path |-> NULL,
     transcript_json_path |-> NULL]

UpdateJobStatusOverwriting(js, id, status, f, now) ==
    IF id \notin JobIds(js) THEN js
    ELSE [js EXCEPT
            ![id].status = status,
            ![id].error_text = f.error_text,
            ![id].video_id = f.video_id,
            ![id].local_video_path = f.local_video_path,
            ![id].transcript_json_path = f.transcript_json_path,
            ![id].finished_at =
                IF status \in {"done", "failed"} THEN now ELSE @,
            ![id].finished_writes =
                IF status \in {"done", "failed"} THEN @ + 1 ELSE @]

UpdateJobStatusAlwaysFinished(js, id, status, f, now) ==
    IF id \notin JobIds(js) THEN js
    ELSE [js EXCEPT
            ![id].status = status,
            ![id].error_text = COALESCE(f.error_text, @),
            ![id].video_id = COALESCE(f.video_id, @),
            ![id].local_video_path = COALESCE(f.local_video_path, @),
            ![id].transcript_json_path = COALESCE(f.transcript_json_path, @),
            ![id].finished_at = now,
            ![id].finished_writes = @ + 1]

\* A plausible slip: the keyword arguments are not stored
UpdateJobStatusStatusOnly(js, id, status, f, now) ==
    IF id \notin JobIds(js) THEN js
    ELSE [js EXCEPT
            ![id].status = status,
            ![id].finished_at =
                IF status \in {"done", "failed"} THEN now ELSE @,
            ![id].finished_writes =
                IF status \in {"done", "failed"} THEN @ + 1 ELSE @]

\* DB.update_job_status: "UPDATE ... WHERE id=?", whatever the row's status
UpdateJobStatus(js, id, status, f, now) ==
    IF id \notin JobIds(js) THEN js
    ELSE [js EXCEPT
            ![id].status = status,
            ![id].error_text = COALESCE(f.error_text, @),
            ![id].video_id = COALESCE(f.video_id, @),
            ![id].local_video_path = COALESCE(f.local_video_path, @),
            ![id].transcript_json_path = COALESCE(f.transcript_json_path, @),
            ![id].finished_at =
                LET finished_at ==
                        IF status \in {"done", "failed"} THEN now ELSE NoTime
                IN  IF finished_at = NoTime THEN @ ELSE finished_at,
            ![id].finished_writes =
                IF status \in {"done", "failed"} THEN @ + 1 ELSE @]

\* No call of update_job_status in progress
UpdIdle == [pc |-> "off", id |-> NoJob, status |-> NULL, f |-> NoFields]

RECURSIVE InsertAll(_, _, _, _)
\* DB.enqueue's loop: one row per url, in the order given, all with one `now`
InsertAll(js, urls, priority, now) ==
    IF urls = <<>> THEN js
    ELSE InsertAll(Append(js, NewJob(Head(urls), priority, now)),
                   Tail(urls), priority, now)

----------------------------------------------------------------------------
(* tui.py: the WorkerRuntime object, its thread and its surroundings *)

\* The content id yt-dlp's metadata reports for a url
VidOf(url) == IF url = "u1" THEN "v1" ELSE "v2"

Vids == {"v1", "v2"}

\* What a content id has on disk: "part" is a partly downloaded media file
\* (matching media_dir/<id>*), "media" the downloaded media file, "tdir" the
\* transcript directory transcript_dir/<id> with whatever it holds.
FileKinds == {"part", "media", "tdir"}

\* self._current_proc = None
NoProc == [job |-> NoJob, stage |-> NULL]

\* proc.poll() is None
Alive == {"running", "stopped"}

KILLED_BY_USER == "killed by user"

\* WorkerRuntime.__init__
RtInitFields ==
    [stop |-> FALSE, paused |-> FALSE, kill_requested |-> FALSE,
     delete_after_kill |-> FALSE, current_proc |-> NoProc,
     proc_paused |-> FALSE, status |-> "idle", current_job_id |-> NoJob,
     current_url |-> NULL, current_video_id |-> NULL,
     current_stage |-> NULL, local_video_path |-> NULL,
     transcript_json_path |-> NULL, last_error |-> NULL]

\* History of the worker's current job, kept until _loop's finally clause
\* has run: whether a kill was requested (kill_active or stop) before the
\* except clause read the kill flag (killReq), the latest kill_active call
\* that returned True, by its delete_files ("keep" or "delete"), among the
\* calls made before the job's outcome was stored (killAck) and among all
\* calls (lastKill), and the message of a failure of a stage's own (failure)
NoHistory ==
    [killReq |-> FALSE, killAck |-> NULL, lastKill |-> NULL,
     failure |-> NULL]

\* What send_webhook comes to when config.webhook_url is set
Deliveries == {"delivered", "failed"}

\* config.webhook_url is not set, and _notify has not been called
NoNotes == [webhook |-> FALSE, sent |-> [j \in 1..MaxJobs |-> <<>>]]

\* A plausible slip: the event is lost with its delivery
NotifyUnlessUndelivered(ns, j, event, d) ==
    IF ns.webhook /\ d = "failed" THEN ns
    ELSE [ns EXCEPT !.sent[j] =
            Append(@, [event |-> event,
                       delivery |-> IF ns.webhook THEN d ELSE "none"])]

\* IngesterService._notify(event, job_id=j, ...): the event is printed, then
\* posted to the webhook when one is configured; an exception of
\* send_webhook is caught and dropped
Notify(ns, j, event, d) ==
    [ns EXCEPT !.sent[j] =
        Append(@, [event |-> event,
                   delivery |-> IF ns.webhook THEN d ELSE "none"])]

\* The state after construction and start(): the thread at the top of _loop,
\* no process, the operator between calls, an empty disk
RtInit ==
    /\ rt = RtInitFields
    /\ th = [pc |-> "stopcheck", job |-> NoJob, exc |-> NULL]
    /\ proc = [id |-> NoProc, state |-> "none"]
    /\ op = [pc |-> "idle", proc |-> NoProc, paused_now |-> FALSE]
    /\ svc = [pc |-> "idle", job |-> NoJob, exc |-> NULL]
    /\ files = [v \in Vids |-> {}]
    /\ videos = {}
    /\ hist = NoHistory

----------------------------------------------------------------------------
(* db.py: transcript_segments and its full-text index *)

Writers == {1, 2}

MaxSegs == 2

\* The largest row id AUTOINCREMENT hands out before calls stop being made
MaxRowId == 4

\* seg.get("start") / seg.get("end") of a whisper segment: the key is
\* absent, holds a number, or holds something float() rejects
Times == {"absent", "1.5", "2.0", "bad"}

\* float() raises ValueError / TypeError
FloatRaises(t) == t = "bad"

\* int(float(seg.get(key, 0.0)) * 1000)
ToMs(t) ==
    CASE t = "absent" -> 0
      [] t = "1.5" -> 1500
      [] t = "2.0" -> 2000
      [] OTHER -> 0

\* str(seg.get("text", "")).strip()
Strip(text) ==
    CASE text = " a " -> "a"
      [] text = "  " -> ""
      [] OTHER -> text

\* The segments a list is made of, in the order of their start
SegmentValues ==
    <<[start |-> "absent", end |-> "1.5", text |-> " a "],
      [start |-> "1.5", end |-> "2.0", text |-> "  "],
      [start |-> "1.5", end |-> "2.0", text |-> "b"],
      [start |-> "bad", end |-> "2.0", text |-> "c"]>>

\* The lists of up to MaxSegs of these segments, in that order
SegmentLists ==
    {[i \in 1..Len(pick) |-> SegmentValues[pick[i]]] :
        pick \in {p \in UNION {[1..n -> 1..Len(SegmentValues)] :
                                 n \in 0..MaxSegs} :
                     \A i \in 1..(Len(p) - 1) : p[i] < p[i + 1]}}

\* A plausible slip: no "if str(seg.get("text", "")).strip()" filter
KeptIndexesUnfiltered(list) == 1..Len(list)

\* enumerate(segments) keeps idx of the segments whose stripped text is not
\* empty; idx counts from 0
KeptIndexes(list) == {i \in 1..Len(list) : Strip(list[i].text) # ""}

\* The list comprehension raises when a kept segment's start or end does
\* not convert
RowsRaise(list) ==
    \E i \in KeptIndexes(list) :
        FloatRaises(list[i].start) \/ FloatRaises(list[i].end)

\* The tuples of rows, without the row id
Rows(vid, list) ==
    {[video_id |-> vid, segment_index |-> i - 1,
      start_ms |-> ToMs(list[i].start), end_ms |-> ToMs(list[i].end),
      text |-> Strip(list[i].text)] : i \in KeptIndexes(list)}

\* A stored row without its id
Columns(r) ==
    [video_id |-> r.video_id, segment_index |-> r.segment_index,
     start_ms |-> r.start_ms, end_ms |-> r.end_ms, text |-> r.text]

\* The stored rows of a content id, without their ids
StoredFor(table, vid) == {Columns(r) : r \in {x \in table : x.video_id = vid}}

\* The tables a connection sees: rows, index entries, sqlite_sequence
NoTables == [segs |-> {}, fts |-> {}, seq |-> 0]

FtsAfterDeleteKeepsEntry(index, old) == index

\* Trigger transcript_segments_ad: the 'delete' command for (old.id, old.text)
FtsAfterDelete(index, old) ==
    index \ {[rowid |-> old.id, text |-> old.text]}

\* Trigger transcript_segments_ai
FtsAfterInsert(index, new) ==
    index \cup {[rowid |-> new.id, text |-> new.text]}

RECURSIVE DeleteEach(_, _)
\* The delete trigger run for each row of a set
DeleteEach(index, rows) ==
    IF rows = {} THEN index
    ELSE LET r == CHOOSE x \in rows : TRUE
         IN  DeleteEach(FtsAfterDelete(index, r), rows \ {r})

\* DELETE FROM transcript_segments WHERE video_id=?
DeleteFor(t, vid) ==
    [t EXCEPT !.segs = {r \in t.segs : r.video_id # vid},
              !.fts = DeleteEach(t.fts, {r \in t.segs : r.video_id = vid})]

RECURSIVE InsertFrom(_, _, _, _)
\* executemany(INSERT ...): the kept segments in list order from position i,
\* each with the next AUTOINCREMENT id, each followed by the insert trigger
InsertFrom(t, vid, list, i) ==
    IF i > Len(list) THEN t
    ELSE IF i \notin KeptIndexes(list) THEN InsertFrom(t, vid, list, i + 1)
    ELSE LET new == [id |-> t.seq + 1, video_id |-> vid,
                     segment_index |-> i - 1,
                     start_ms |-> ToMs(list[i].start),
                     end_ms |-> ToMs(list[i].end),
                     text |-> Strip(list[i].text)]
         IN  InsertFrom([segs |-> t.segs \cup {new},
                         fts |-> FtsAfterInsert(t.fts, new),
                         seq |-> t.seq + 1], vid, list, i + 1)

\* FOREIGN KEY(video_id) REFERENCES videos(video_id), PRAGMA foreign_keys=ON:
\* the INSERT of a row whose content id has no videos row raises
ForeignKeyFails(vid, list, vs) == KeptIndexes(list) # {} /\ vid \notin vs

\* History of a content id: whether a call has committed, its list, and
\* whether a call has failed after its DELETE since
NoCall == [called |-> FALSE, list |-> <<>>, failed |-> FALSE]

WriterIdle == [pc |-> "idle", vid |-> NULL, list |-> <<>>, t |-> NoTables]

SegIdle ==
    /\ segs = {}
    /\ fts = {}
    /\ segSeq = 0
    /\ sw = [w \in Writers |-> WriterIdle]
    /\ segLast = [v \in Vids |-> NoCall]

----------------------------------------------------------------------------
(* pipeline.py: probing, selection and the merge cascade *)

MaxSize == 2

RAISED == "raised"

\* bool | None of _media_has_audio_stream / _media_has_video_stream
Probe == {"yes", "no", "unknown"}

\* config.media_dir.glob(f"{video_id}*"), sorted: the names in path order
MediaNames == <<"id.f137.mp4", "id.f251.webm", "id.mkv">>

\* One file name per container the selections rank, in path order
ContainerNames == <<"id.m4a", "id.m4v", "id.mkv", "id.mov", "id.mp4", "id.webm">>

\* sorted(...) of _fallback_paths over all the names above
PathOrder ==
    <<"id.f137.mp4", "id.f251.webm", "id.m4a", "id.m4v", "id.mkv", "id.mov",
      "id.mp4", "id.webm">>

NameIndex(name) == CHOOSE i \in 1..Len(PathOrder) : PathOrder[i] = name

\* Path.suffix
Suffix(name) ==
    CASE name \in {"id.f137.mp4", "id.mp4", "id.merged.mp4", "id.playback.mp4"}
            -> ".mp4"
      [] name \in {"id.f251.webm", "id.webm"} -> ".webm"
      [] name \in {"id.mkv", "id.merged.mkv"} -> ".mkv"
      [] name = "id.mov" -> ".mov"
      [] name = "id.m4v" -> ".m4v"
      [] name = "id.m4a" -> ".m4a"
      [] OTHER -> ""

\* _select_primary_media's ext_rank
MediaExtRank(ext) ==
    CASE ext = ".mp4" -> 4
      [] ext = ".mkv" -> 3
      [] ext \in {".webm", ".mov", ".m4v"} -> 2
      [] ext \in {".m4a", ".mp3", ".opus"} -> 1
      [] OTHER -> 0

\* _select_primary_video's ext_rank
VideoExtRank(ext) ==
    CASE ext = ".mkv" -> 5
      [] ext = ".mp4" -> 4
      [] ext = ".webm" -> 3
      [] ext \in {".mov", ".m4v"} -> 2
      [] OTHER -> 0

\* The files a state of the media directory holds for the content id
CandidateSets ==
    UNION {[names -> [audio : Probe, video : Probe, size : 1..MaxSize]] :
              names \in SUBSET {MediaNames[i] : i \in 1..Len(MediaNames)}}

\* The largest number of files of the directory when all containers occur
MaxFiles == 3

\* Directories over all the containers; each file holds audio, video or both
ContainerSets ==
    UNION {[names -> {r \in [audio : {"yes", "no"}, video : {"yes", "no"},
                            size : 1..MaxSize] :
                         r.audio = "yes" \/ r.video = "yes"}] :
              names \in {n \in SUBSET {ContainerNames[i] :
                                          i \in 1..Len(ContainerNames)} :
                            Cardinality(n) <= MaxFiles}}

\* preferred_path: not given, a path that does not exist, or a file of the
\* directory
MISSING == "missing.mp4"

PreferredPaths(c) == {NULL, MISSING} \cup DOMAIN c

\* _fallback_paths
FallbackPaths(c) == DOMAIN c

\* Place in resolve_playback_media_path's list unique: the preferred path
\* first, then the directory in path order
Position(p) == IF p = preferred THEN 0 ELSE NameIndex(p)

WithVideoOrUnknown(c, paths) == {p \in paths : c[p].video # "no"}

\* _media_has_video_stream(p) is True
WithVideo(c, paths) == {p \in paths : c[p].video = "yes"}

WithAudio(c, paths) == {p \in paths : c[p].audio = "yes"}

SelectPrimaryVideoBySize(c, paths) ==
    CHOOSE p \in paths : \A q \in paths \ {p} :
        \/ c[p].size > c[q].size
        \/ c[p].size = c[q].size /\ Position(p) < Position(q)

\* sorted(paths, key=(ext_rank, st_size), reverse=True)[0]: Python's sort is
\* stable, so files of equal key stay in list (path) order.
SelectPrimaryVideo(c, paths) ==
    CHOOSE p \in paths : \A q \in paths \ {p} :
        \/ VideoExtRank(Suffix(p)) > VideoExtRank(Suffix(q))
        \/ /\ VideoExtRank(Suffix(p)) = VideoExtRank(Suffix(q))
           /\ \/ c[p].size > c[q].size
              \/ c[p].size = c[q].size /\ Position(p) < Position(q)

\* _select_primary_media; PipelineError for an empty list
SelectPrimaryMedia(c, paths) ==
    IF paths = {} THEN RAISED
    ELSE CHOOSE p \in paths : \A q \in paths \ {p} :
            \/ MediaExtRank(Suffix(p)) > MediaExtRank(Suffix(q))
            \/ /\ MediaExtRank(Suffix(p)) = MediaExtRank(Suffix(q))
               /\ \/ c[p].size > c[q].size
                  \/ c[p].size = c[q].size /\ NameIndex(p) < NameIndex(q)

\* _pick_largest: None (NULL) for an empty list
PickLargest(c, paths) ==
    IF paths = {} THEN NULL
    ELSE CHOOSE p \in paths : \A q \in paths \ {p} :
            \/ c[p].size > c[q].size
            \/ c[p].size = c[q].size /\ NameIndex(p) < NameIndex(q)

\* merge_streams_for_playback's video_source
VideoSource(c) == PickLargest(c, WithVideo(c, FallbackPaths(c)))

\* merge_streams_for_playback's audio_source
AudioSource(c) ==
    PickLargest(c, {p \in WithAudio(c, FallbackPaths(c)) :
                       p \notin WithVideo(c, FallbackPaths(c))
                       /\ c[p].video = "no"})

\* The four strategies in the order the code runs them
StrategyOrder == <<"copy_mp4", "aac_mp4", "copy_mkv", "compat_mp4">>

\* The file each strategy writes
OutputOf(strategy) ==
    CASE strategy \in {"copy_mp4", "aac_mp4"} -> "id.merged.mp4"
      [] strategy = "copy_mkv" -> "id.merged.mkv"
      [] strategy = "compat_mp4" -> "id.playback.mp4"

\* What one strategy's run gives: ffmpeg's exit code, then the checks of the
\* "and" chain in the order it evaluates them; a check the chain does not
\* reach is NULL.
Outcomes ==
    {[exit |-> "nonzero", exists |-> NULL, audio |-> NULL, video |-> NULL,
      smoke |-> NULL],
     [exit |-> "zero", exists |-> "no", audio |-> NULL, video |-> NULL,
      smoke |-> NULL]}
    \cup {[exit |-> "zero", exists |-> "yes", audio |-> a, video |-> NULL,
           smoke |-> NULL] : a \in {"no", "unknown"}}
    \cup {[exit |-> "zero", exists |-> "yes", audio |-> "yes", video |-> v,
           smoke |-> NULL] : v \in {"no", "unknown"}}
    \cup {[exit |-> "zero", exists |-> "yes", audio |-> "yes", video |-> "yes",
           smoke |-> k] : k \in {"fail", "pass"}}

ValidatedWithoutSmokeTest(o) ==
    /\ o.exit = "zero"
    /\ o.exists = "yes"
    /\ o.audio = "yes"
    /\ o.video = "yes"

\* The acceptance test after each strategy
Validated(o) ==
    /\ o.exit = "zero"
    /\ o.exists = "yes"
    /\ o.audio = "yes"
    /\ o.video = "yes"
    /\ o.smoke = "pass"

MergeIdle ==
    /\ cands = <<>>
    /\ preferred = NULL
    /\ mpc = "off"
    /\ attempts = <<>>
    /\ lastOut = NULL
    /\ mresult = NULL

\* A call of resolve_playback_media_path, or download_video at the return of
\* its run_cmd, over a directory
CallOver(dirs) ==
    /\ cands \in dirs
    /\ \/ mpc = "resolve" /\ preferred \in PreferredPaths(cands)
       \/ mpc = "download" /\ preferred = NULL
    /\ attempts = <<>>
    /\ lastOut = NULL
    /\ mresult = NULL

MergeInit == CallOver(CandidateSets)

LastResortLargest(c) ==
    IF WithVideo(c, FallbackPaths(c)) = {} THEN RAISED
    ELSE PickLargest(c, WithVideo(c, FallbackPaths(c)))

LastResortWithAudio(c) ==
    IF WithVideo(c, FallbackPaths(c)) = {} THEN RAISED
    ELSE PickLargest(c, WithAudio(c, FallbackPaths(c)))

\* resolve_playback_media_path after merge_streams_for_playback returned None
LastResort(c) ==
    IF WithVideo(c, FallbackPaths(c)) = {} THEN RAISED
    ELSE SelectPrimaryVideo(c, WithVideo(c, FallbackPaths(c)))

\* resolve_playback_media_path up to the first ffmpeg run: the direct return,
\* and merge_streams_for_playback's returns before any strategy
ResolveStart ==
    /\ mpc = "resolve"
    /\ LET wv == WithVideo(cands, FallbackPaths(cands))
           wav == WithAudio(cands, wv)
       IN  IF wav # {}
           THEN /\ mresult' = SelectPrimaryVideo(cands, wav)
                /\ mpc' = "done"
           ELSE IF VideoSource(cands) = NULL \/ AudioSource(cands) = NULL
           THEN /\ mresult' = LastResort(cands)
                /\ mpc' = "done"
           ELSE /\ mpc' = "copy_mp4"
                /\ UNCHANGED mresult
    /\ UNCHANGED <<cands, preferred, attempts, lastOut>>
    /\ UNCHANGED <<storeVars, callerVars, storeHist, rtVars, segVars, callVars, notes>>

\* Strategies 1 and 2: subprocess.run, whose nonzero exit raises nothing
AttemptWithRun(strategy, next) ==
    /\ mpc = strategy
    /\ \E o \in Outcomes :
        /\ lastOut' = o
        /\ attempts' = Append(attempts, strategy)
        /\ IF Validated(o)
           THEN mresult' = OutputOf(strategy) /\ mpc' = "done"
           ELSE mpc' = next /\ UNCHANGED mresult
    /\ UNCHANGED <<cands, preferred, storeVars, callerVars, storeHist, rtVars, segVars, callVars, notes>>

\* Strategies 3 and 4: run_cmd, which raises PipelineError on a nonzero exit;
\* neither merge_streams_for_playback nor resolve_playback_media_path catches
AttemptWithRunCmd(strategy, next) ==
    /\ mpc = strategy
    /\ \E o \in Outcomes :
        /\ lastOut' = o
        /\ attempts' = Append(attempts, strategy)
        /\ IF o.exit = "nonzero"
           THEN mresult' = RAISED /\ mpc' = "done"
           ELSE IF Validated(o)
           THEN mresult' = OutputOf(strategy) /\ mpc' = "done"
           ELSE IF next = "done"
           THEN mresult' = LastResort(cands) /\ mpc' = "done"
           ELSE mpc' = next /\ UNCHANGED mresult
    /\ UNCHANGED <<cands, preferred, storeVars, callerVars, storeHist, rtVars, segVars, callVars, notes>>

\* _ensure_audio_ready_media
EnsureAudioReadyMedia(c, paths) ==
    IF paths = {} THEN RAISED
    ELSE IF WithAudio(c, WithVideo(c, paths)) # {}
    THEN SelectPrimaryMedia(c, WithAudio(c, WithVideo(c, paths)))
    ELSE IF WithAudio(c, paths) # {}
    THEN PickLargest(c, WithAudio(c, paths))
    ELSE SelectPrimaryMedia(c, paths)

\* download_video from the return of run_cmd (yt-dlp exited zero)
DownloadVideo ==
    /\ mpc = "download"
    /\ mresult' = IF "id.mp4" \in DOMAIN cands /\ cands["id.mp4"].audio = "yes"
                  THEN "id.mp4"
                  ELSE EnsureAudioReadyMedia(cands, FallbackPaths(cands))
    /\ mpc' = "downloaded"
    /\ UNCHANGED <<cands, preferred, attempts, lastOut>>
    /\ UNCHANGED <<storeVars, callerVars, storeHist, rtVars, segVars, callVars, notes>>

MergeNext ==
    \/ DownloadVideo
    \/ ResolveStart
    \/ AttemptWithRun("copy_mp4", "aac_mp4")
    \/ AttemptWithRun("aac_mp4", "copy_mkv")
    \/ AttemptWithRunCmd("copy_mkv", "compat_mp4")
    \/ AttemptWithRunCmd("compat_mp4", "done")

----------------------------------------------------------------------------
(* pipeline.py: _media_has_audio_stream and _media_has_video_stream *)

MaxStreams == 2

\* An element of the "streams" value: an object whose codec_type is audio,
\* video or something else, an object without codec_type, or a value that
\* is not an object
StreamEntries == {"audio", "video", "data", "nokey", "nondict"}

\* What the text ffprobe printed parses to: not JSON at all, a JSON value
\* that is not an object, or an object whose "streams" is absent, null, a
\* number, a string, or a list of entries
JsonKinds == {"invalid", "null", "number", "string", "array", "object"}

\* What "streams" holds, and for a list its entries
StreamsKinds == {"absent", "null", "number", "string", "list"}

EntryLists == UNION {[1..n -> StreamEntries] : n \in 0..MaxStreams}

\* The outcomes of subprocess.run(cmd, capture_output=True, text=True)
ProbeOutcomes ==
    {[start |-> "oserror", returncode |-> 0, json |-> "invalid",
      streams |-> "absent", items |-> <<>>]}
    \cup {[start |-> "ran", returncode |-> rc, json |-> k,
           streams |-> "absent", items |-> <<>>] :
             rc \in {0, 1}, k \in JsonKinds \ {"object"}}
    \cup {[start |-> "ran", returncode |-> rc, json |-> "object",
           streams |-> v, items |-> <<>>] :
             rc \in {0, 1}, v \in StreamsKinds \ {"list"}}
    \cup {[start |-> "ran", returncode |-> rc, json |-> "object",
           streams |-> "list", items |-> l] :
             rc \in {0, 1}, l \in EntryLists}

\* for s in streams: None and a number are not iterable
NotIterable(o) == o.streams \in {"null", "number"}

\* any(str(s.get("codec_type")) == kind for s in streams if isinstance(s,
\* dict)): payload.get's default is the empty list, and the characters of
\* a string are not objects
AnyOfKind(o, kind) ==
    /\ o.streams = "list"
    /\ \E i \in DOMAIN o.items : o.items[i] = kind

\* _media_has_audio_stream (kind "audio") and _media_has_video_stream (kind
\* "video"): the same body but for the codec type. None is "unknown";
\* payload.get on a value that is not an object raises AttributeError, the
\* iteration over a value that is not iterable raises TypeError.
MediaHasStream(o, kind) ==
    IF o.start = "oserror" THEN "unknown"
    ELSE IF o.returncode # 0 THEN "unknown"
    ELSE IF o.json = "invalid" THEN "unknown"
    ELSE IF o.json # "object" THEN RAISED
    ELSE IF NotIterable(o) THEN RAISED
    ELSE IF AnyOfKind(o, kind) THEN "yes" ELSE "no"

NoOutcome ==
    [start |-> "none", returncode |-> 0, json |-> "invalid",
     streams |-> "absent", items |-> <<>>]

NoProbe == [o |-> NoOutcome, audio |-> NULL, video |-> NULL]

----------------------------------------------------------------------------
(* pipeline.py: run_cmd *)

\* The chunks a process writes to its stdout before it ends
MaxChunks == 2

\* proc.returncode as run_cmd reads it is "0", "1", "-9" (a SIGKILL poll()
\* has seen) or "None" (run_cmd left its loop by "proc.kill(); break", after
\* which nothing waits for the process).

\* A plausible slip: "if completed.returncode:", which lets None pass
CompletedOrRaisedTruthy(code, out) ==
    IF code \in {"0", "None"}
    THEN [kind |-> "returned", code |-> code, stdout |-> out]
    ELSE [kind |-> "raised", code |-> code, stdout |-> out]

\* run_cmd's end: the CompletedProcess is returned when returncode is 0,
\* and PipelineError("Command failed (<code>) ... stdout ... stderr ...")
\* is raised otherwise
CompletedOrRaised(code, out) ==
    IF code = "0"
    THEN [kind |-> "returned", code |-> code, stdout |-> out]
    ELSE [kind |-> "raised", code |-> code, stdout |-> out]

NoResult == [kind |-> "none", code |-> "None", stdout |-> 0]

\* No call of run_cmd
NoCmd ==
    [pc |-> "off", on_process |-> FALSE, should_terminate |-> FALSE,
     state |-> "none", wrote |-> 0, returncode |-> "None", cancel |-> FALSE,
     on_calls |-> 0, polled |-> FALSE, whileRunning |-> FALSE,
     seenTrue |-> FALSE, result |-> NoResult]

----------------------------------------------------------------------------
(* service.py: process_job_id_with_progress and _process_job's callbacks *)

\* The same job is processed twice from the same store state, once with
\* progress_cb=None and once with a callback
Runs == {"without", "with"}

\* The stages progress_cb is called with, in the order of the calls
ProgressEvents ==
    <<"metadata_start", "metadata_done", "download_start", "download_done",
      "transcribe_start", "transcribe_done", "index_start", "index_done",
      "done", "failed">>

\* What the callback does: it returns from every call, or it raises when
\* called with one of the stages
CallbackRaisesAt ==
    {"never"} \cup {ProgressEvents[i] : i \in DOMAIN ProgressEvents}

\* Where the pipeline itself fails, if it does: fetch_video_metadata, the
\* id test, download_video, transcribe_video, load_whisper_segments
Plans == {"none", "metadata", "noid", "download", "transcribe", "index"}

CALLBACK_ERROR == "callback failed"

\* A run before reserve_job_by_id: one queued job in its store, no content
\* record, no segments, nothing notified
RunStart ==
    [pc |-> "claim", tbl |-> InsertAll(<<>>, <<"u1">>, 0, 1),
     video |-> FALSE, stored |-> FALSE, events |-> <<>>, exc |-> NULL,
     escaped |-> FALSE]

NoRuns == [plan |-> "none", cb |-> "never", run |-> <<>>]

----------------------------------------------------------------------------
(* pipeline.py: transcribe_video *)

\* A call of transcribe_video at its start. has_audio is the value the
\* audio test returned, tool whether the whisper process was started, exc
\* what the call raised.
TranscribeStart ==
    [pc |-> "call", o |-> NoOutcome, has_audio |-> NULL, tool |-> FALSE,
     exc |-> NULL]

\* No call of transcribe_video
NoTranscribe == [pc |-> "off"]

NO_AUDIO == "Input media has no audio stream"

----------------------------------------------------------------------------
(* db.py: get_dashboard_snapshot *)

\* SELECT status, COUNT(*) ... GROUP BY status, as the dict `counts`: one
\* key for each status some row has
GroupCounts(js) ==
    [s \in {js[i].status : i \in JobIds(js)} |->
        Cardinality({i \in JobIds(js) : js[i].status = s})]

\* counts.get(status, 0)
GetOrZero(counts, s) == IF s \in DOMAIN counts THEN counts[s] ELSE 0

\* A plausible slip: every row that is not done or failed
ActiveIdsNotTerminal(js) ==
    {i \in JobIds(js) : js[i].status \notin {"done", "failed"}}

\* WHERE status IN ('downloading', 'transcribing')
ActiveIds(js) ==
    {i \in JobIds(js) : js[i].status \in {"downloading", "transcribing"}}

\* ORDER BY started_at ASC: the orders of the active rows the query can
\* return them in
ActiveOrders(js) ==
    {q \in [1..Cardinality(ActiveIds(js)) -> ActiveIds(js)] :
        /\ \A a, b \in DOMAIN q : a # b => q[a] # q[b]
        /\ \A a, b \in DOMAIN q :
              a < b => js[q[a]].started_at <= js[q[b]].started_at}

\* WHERE status = 'done' AND started_at IS NOT NULL AND finished_at IS NOT
\* NULL
SampledIds(js) ==
    {i \in JobIds(js) : /\ js[i].status = "done"
                        /\ js[i].started_at # NoTime
                        /\ js[i].finished_at # NoTime}

\* ORDER BY id DESC LIMIT ?: the `limit` greatest ids of the sample
LastIds(ids, limit) ==
    {i \in ids : Cardinality({k \in ids : k > i}) < limit}

\* One entry of active_jobs; elapsed_sec is max(0.0, now_sec - started_sec)
ActiveJob(js, i, now) ==
    [id |-> i, source_url |-> js[i].url, status |-> js[i].status,
     created_at |-> js[i].created_at, started_at |-> js[i].started_at,
     elapsed_sec |-> IF now > js[i].started_at
                     THEN now - js[i].started_at ELSE 0]

\* The durations list: finished - started of the sampled rows, the positive
\* ones only, as a bag given by row id
Durations(js, ids) ==
    [i \in {k \in ids : js[k].finished_at - js[k].started_at > 0} |->
        js[i].finished_at - js[i].started_at]

\* The returned dict's "counts"
FiveCounts(counts) == [s \in Statuses |-> GetOrZero(counts, s)]

\* A call of get_dashboard_snapshot at its start. atCount and atActive are
\* history: the table as the first and the second SELECT read it.
DashStart ==
    [pc |-> "count", sample_size |-> 0, counts |-> GroupCounts(<<>>),
     active_rows |-> <<>>, result_counts |-> FiveCounts(GroupCounts(<<>>)),
     active_jobs |-> <<>>, durations |-> Durations(<<>>, {}),
     atCount |-> <<>>, atActive |-> <<>>]

\* No call of get_dashboard_snapshot
NoDash == [pc |-> "off"]

----------------------------------------------------------------------------
(* db.py: search_transcript_segments *)

\* The length of a segment's text and of a query, in characters
MaxText == 2

\* Texts and queries are sequences of characters
TextChars == {"a", "A", "b"}

QueryChars == {"a", "A", "_", " "}

\* Stored texts: stripped and not empty (replace_transcript_segments)
Texts == UNION {[1..n -> TextChars] : n \in 1..MaxText}

Queries == UNION {[1..n -> QueryChars] : n \in 0..MaxText}

\* str.lower() and SQLite's LOWER() on these characters
Lower(c) == IF c = "A" THEN "a" ELSE c

LowerAll(t) == [i \in DOMAIN t |-> Lower(t[i])]

RECURSIVE StripLeft(_)
StripLeft(t) ==
    IF t # <<>> /\ Head(t) = " " THEN StripLeft(Tail(t)) ELSE t

RECURSIVE StripRight(_)
StripRight(t) ==
    IF t # <<>> /\ t[Len(t)] = " "
    THEN StripRight(SubSeq(t, 1, Len(t) - 1)) ELSE t

\* needle = query_text.strip().lower()
Needle(query_text) == LowerAll(StripRight(StripLeft(query_text)))

RECURSIVE Like(_, _)
\* SQLite's "t LIKE pattern" with no ESCAPE clause: % matches any run of
\* characters, _ any one character, every other character itself without
\* regard to (ASCII) case
Like(t, pattern) ==
    IF pattern = <<>> THEN t = <<>>
    ELSE IF Head(pattern) = "%"
    THEN Like(t, Tail(pattern)) \/ (t # <<>> /\ Like(Tail(t), pattern))
    ELSE /\ t # <<>>
         /\ Head(pattern) = "_" \/ Lower(Head(t)) = Lower(Head(pattern))
         /\ Like(Tail(t), Tail(pattern))

\* WHERE LOWER(ts.text) LIKE ?, with the parameter f"%{needle}%"
MatchesNeedle(text, needle) ==
    Like(LowerAll(text), <<"%">> \o needle \o <<"%">>)

\* latest_done: MAX(id) of the done rows of a content id, as a set that is
\* empty when the content id has no done row
LatestDone(js, vid) ==
    {i \in JobIds(js) :
        /\ js[i].status = "done" /\ js[i].video_id = vid
        /\ \A k \in JobIds(js) :
              js[k].status = "done" /\ js[k].video_id = vid => k <= i}

\* One row of the result: the segment with, through the two LEFT JOINs, the
\* paths of the latest done job of its content id, or NULLs (title and
\* source_url of the videos row are left out)
SearchRow(js, seg) ==
    LET ld == LatestDone(js, seg.video_id)
    IN  [video_id |-> seg.video_id, start_ms |-> seg.start_ms,
         end_ms |-> seg.end_ms, text |-> seg.text,
         local_video_path |->
             IF ld = {} THEN NULL
             ELSE js[CHOOSE i \in ld : TRUE].local_video_path,
         transcript_json_path |->
             IF ld = {} THEN NULL
             ELSE js[CHOOSE i \in ld : TRUE].transcript_json_path]

\* ORDER BY ts.video_id ASC, ts.start_ms ASC
VidOrder(vid) == IF vid = "v1" THEN 1 ELSE 2

RowBefore(a, b) ==
    \/ VidOrder(a.video_id) < VidOrder(b.video_id)
    \/ a.video_id = b.video_id /\ a.start_ms <= b.start_ms

\* The results the query can return: the matching segments of contents
\* that have a videos row, in order, cut at LIMIT
SearchResults(js, table, vs, needle, limit) ==
    LET hits == {seg \in table : /\ seg.video_id \in vs
                                  /\ MatchesNeedle(seg.text, needle)}
        n == IF Cardinality(hits) < limit THEN Cardinality(hits) ELSE limit
    IN  {[k \in DOMAIN q |-> SearchRow(js, q[k])] :
            q \in {x \in [1..n -> hits] :
                     /\ \A a, b \in 1..n : a # b => x[a] # x[b]
                     /\ \A a, b \in 1..n : a < b => RowBefore(x[a], x[b])
                     /\ \A h \in hits :
                           (\A a \in 1..n : x[a] # h)
                           => \A a \in 1..n : RowBefore(x[a], h)}}

\* A call of search_transcript_segments at its start
SearchStart ==
    [pc |-> "call", query_text |-> <<>>, limit |-> 0, rows |-> <<>>]

\* No call of search_transcript_segments
NoSearch == [pc |-> "off"]

\* No other call is being looked at
Still == tr = NoTranscribe /\ dash = NoDash /\ srch = NoSearch

\* No probe, run_cmd or process_job_id call is being looked at, and no
\* webhook is configured
Quiet ==
    /\ notes = NoNotes
    /\ probe = NoProbe
    /\ cmd = NoCmd
    /\ sv = NoRuns
    /\ Still

StoreIdle ==
    /\ jobs = <<>>
    /\ clock = 1
    /\ dbLock = 0
    /\ cpc = [c \in Callers |-> "idle"]
    /\ crow = [c \in Callers |-> NoJob]
    /\ cop = [c \in Callers |-> NoJob]
    /\ upd = UpdIdle
    /\ SegIdle
    /\ claimCount = [j \in 1..MaxJobs |-> 0]
    /\ nextDone = 0

MergeSpecInit == StoreIdle /\ MergeInit /\ RtInit /\ Quiet

SpecMerge == MergeSpecInit /\ [][MergeNext]_vars

SelectInit == StoreIdle /\ CallOver(ContainerSets) /\ RtInit /\ Quiet

\* The same calls over directories that hold every container the selections
\* rank
SpecSelect == SelectInit /\ [][MergeNext]_vars

IsPrefix(s, t) == Len(s) <= Len(t) /\ \A i \in 1..Len(s) : s[i] = t[i]

\* C10: the strategies run in the order copy_mp4, aac_mp4, copy_mkv,
\* compat_mp4; a strategy that fails (nonzero exit or a failed check) is
\* followed by the next one, so resolve_playback_media_path ends after a
\* failed strategy only when that strategy was the last, and it raises only
\* then.
C10_CascadeContinues ==
    /\ IsPrefix(attempts, StrategyOrder)
    /\ (mpc = "done" /\ attempts # <<>> /\ ~Validated(lastOut))
          => attempts = StrategyOrder
    /\ (mresult = RAISED /\ attempts # <<>>) => attempts = StrategyOrder

\* The files of the merged outputs
MergedOutputs == {OutputOf(StrategyOrder[i]) : i \in 1..Len(StrategyOrder)}

\* The directory holds exactly one video-only and one audio-only file
SplitPair(c) ==
    \E v, a \in DOMAIN c :
        /\ DOMAIN c = {v, a}
        /\ c[v].video = "yes" /\ c[v].audio = "no"
        /\ c[a].audio = "yes" /\ c[a].video = "no"

\* The strategy's output passed every check of the acceptance chain
PassedEveryCheck(o) ==
    /\ o.exit = "zero"
    /\ o.exists = "yes"
    /\ o.audio = "yes"
    /\ o.video = "yes"
    /\ o.smoke = "pass"

ReturnsValidatedMerge ==
    /\ attempts # <<>>
    /\ mresult = OutputOf(attempts[Len(attempts)])
    /\ PassedEveryCheck(lastOut)

C12_OnlyValidatedAccepted ==
    /\ mresult \in MergedOutputs => ReturnsValidatedMerge
    /\ (attempts # <<>> /\ ~PassedEveryCheck(lastOut))
          => mresult \notin MergedOutputs

\* The third strategy's output is returned after two rejected outputs
C12_Witness ==
    /\ Len(attempts) = 3
    /\ mresult = "id.merged.mkv"
    /\ PassedEveryCheck(lastOut)

----------------------------------------------------------------------------
(* SpecStore: claim calls, statement by statement *)

URLs == {"u1", "u2"}

\* enqueue(urls): the url lists a call is made with
UrlLists == UNION {[1..n -> URLs] : n \in {1, 2}}

Sat(n) == IF n < MaxJobs THEN n + 1 ELSE MaxJobs

StoreInit == StoreIdle /\ MergeIdle /\ RtInit /\ Quiet

\* DB.enqueue: one transaction, one timestamp for the whole call. The clock
\* does not run backwards; two calls may read the same value.
Enqueue(urls, priority, tick) ==
    /\ dbLock = 0
    /\ Len(jobs) + Len(urls) <= MaxJobs
    /\ jobs' = InsertAll(jobs, urls, priority, clock)
    /\ clock' = clock + tick
    /\ nextDone' = 0
    /\ UNCHANGED <<dbLock, callerVars, claimCount, mergeVars, rtVars, segVars, callVars, notes>>

\* conn.execute("BEGIN IMMEDIATE"): waits for, then takes, the write lock.
\* call = 0 is reserve_next_job, call = id > 0 is reserve_job_by_id(id).
BeginDeferred(c, call) ==
    /\ cpc[c] = "idle"
    /\ cpc' = [cpc EXCEPT ![c] = "begun"]
    /\ cop' = [cop EXCEPT ![c] = call]
    /\ UNCHANGED <<jobs, clock, dbLock, crow, storeHist, upd, mergeVars, rtVars, segVars, callVars, notes>>

BeginImmediate(c, call) ==
    /\ cpc[c] = "idle"
    /\ dbLock = 0
    /\ dbLock' = c
    /\ cpc' = [cpc EXCEPT ![c] = "begun"]
    /\ cop' = [cop EXCEPT ![c] = call]
    /\ UNCHANGED <<jobs, clock, crow, storeHist, upd, mergeVars, rtVars, segVars, callVars, notes>>

\* conn.execute("COMMIT") / the end of connect(): the lock is released
Released(c) == IF dbLock = c THEN 0 ELSE dbLock

\* reserve_next_job's SELECT ... LIMIT 1 and its "if not row" return
SelectNext(c) ==
    /\ cpc[c] = "begun"
    /\ cop[c] = 0
    /\ IF QueuedIds(jobs) = {}
       THEN /\ cpc' = [cpc EXCEPT ![c] = "idle"]
            /\ dbLock' = Released(c)
            /\ nextDone' = Sat(nextDone)
            /\ UNCHANGED <<crow, cop, claimCount>>
       ELSE /\ \E i \in FirstQueued(jobs) : crow' = [crow EXCEPT ![c] = i]
            /\ cpc' = [cpc EXCEPT ![c] = "selected"]
            /\ UNCHANGED <<dbLock, cop, claimCount, nextDone>>
    /\ UNCHANGED <<jobs, clock, upd, mergeVars, rtVars, segVars, callVars, notes>>

SelectByIdAnyStatus(c) ==
    /\ cpc[c] = "begun"
    /\ cop[c] # 0
    /\ IF cop[c] \notin JobIds(jobs)
       THEN /\ cpc' = [cpc EXCEPT ![c] = "idle"]
            /\ cop' = [cop EXCEPT ![c] = NoJob]
            /\ dbLock' = Released(c)
            /\ UNCHANGED crow
       ELSE /\ crow' = [crow EXCEPT ![c] = cop[c]]
            /\ cpc' = [cpc EXCEPT ![c] = "selected"]
            /\ UNCHANGED <<dbLock, cop>>
    /\ UNCHANGED <<jobs, clock, storeHist, upd, mergeVars, rtVars, segVars, callVars, notes>>

\* reserve_job_by_id's SELECT ... WHERE id=? and its two early returns
SelectById(c) ==
    /\ cpc[c] = "begun"
    /\ cop[c] # 0
    /\ IF cop[c] \notin JobIds(jobs) \/ jobs[cop[c]].status # "queued"
       THEN /\ cpc' = [cpc EXCEPT ![c] = "idle"]
            /\ cop' = [cop EXCEPT ![c] = NoJob]
            /\ dbLock' = Released(c)
            /\ UNCHANGED crow
       ELSE /\ crow' = [crow EXCEPT ![c] = cop[c]]
            /\ cpc' = [cpc EXCEPT ![c] = "selected"]
            /\ UNCHANGED <<dbLock, cop>>
    /\ UNCHANGED <<jobs, clock, storeHist, upd, mergeVars, rtVars, segVars, callVars, notes>>

\* The UPDATE, the COMMIT and "return Job(id=row.id, ...)" of both claims:
\* the job is returned whatever the UPDATE's row count was.
UpdateAndReturn(c) ==
    /\ cpc[c] = "selected"
    /\ jobs' = MarkDownloading(jobs, crow[c], clock)
    /\ dbLock' = Released(c)
    /\ cpc' = [cpc EXCEPT ![c] = "idle"]
    /\ claimCount' = [claimCount EXCEPT ![crow[c]] = @ + 1]
    /\ nextDone' = IF cop[c] = 0 THEN Sat(nextDone) ELSE nextDone
    /\ crow' = [crow EXCEPT ![c] = NoJob]
    /\ cop' = [cop EXCEPT ![c] = NoJob]
    /\ UNCHANGED <<clock, upd, mergeVars, rtVars, segVars, callVars, notes>>

StoreNext ==
    \/ \E urls \in UrlLists, p \in Priorities, tick \in {0, 1} :
          Enqueue(urls, p, tick)
    \/ \E c \in Callers, call \in 0..MaxJobs : BeginImmediate(c, call)
    \/ \E c \in Callers : SelectNext(c)
    \/ \E c \in Callers : SelectById(c)
    \/ \E c \in Callers : UpdateAndReturn(c)

SpecStore == StoreInit /\ [][StoreNext]_vars

\* C1: over any interleaving of reserve_next_job and reserve_job_by_id calls
\* by concurrent callers, no job id is returned by more than one claim, and
\* once as many claim_next calls have completed as the store holds jobs,
\* every job has been returned by exactly one claim.
C1_ExclusiveClaim ==
    /\ \A j \in 1..MaxJobs : claimCount[j] <= 1
    /\ nextDone >= Len(jobs) => \A j \in JobIds(jobs) : claimCount[j] = 1

C1_Witness ==
    /\ Len(jobs) = MaxJobs
    /\ nextDone >= Len(jobs)
    /\ \A j \in JobIds(jobs) : claimCount[j] = 1 /\ jobs[j].status = "downloading"

\* Enqueue order among queued jobs: higher priority first, then lower id
\* (ids are handed out in insertion order).
EnqueuedBefore(js, i, k) ==
    \/ js[i].priority > js[k].priority
    \/ js[i].priority = js[k].priority /\ i < k

ChangedRows(js, js2) == {k \in JobIds(js) : js2[k] # js[k]}

\* Caller c's call returns None in this step
ReturnsNone(c) == cpc[c] = "begun" /\ cpc'[c] = "idle"

\* Caller c's call returns the job crow[c] in this step
ReturnsJob(c) == cpc[c] = "selected" /\ cpc'[c] = "idle"

\* C17: reserve_job_by_id returns the job, and makes it downloading, only
\* when the row exists and is queued; for a missing id or a job that is not
\* queued it returns None and leaves every row as it was.
C17_ClaimByIdOnlyQueued ==
    [][\A c \in Callers : cop[c] # 0 =>
          /\ ReturnsJob(c) =>
                /\ crow[c] = cop[c]
                /\ cop[c] \in JobIds(jobs)
                /\ jobs[cop[c]].status = "queued"
                /\ jobs'[cop[c]].status = "downloading"
                /\ claimCount'[cop[c]] = claimCount[cop[c]] + 1
          /\ ReturnsNone(c) =>
                /\ cop[c] \notin JobIds(jobs) \/ jobs[cop[c]].status # "queued"
                /\ jobs' = jobs
                /\ claimCount' = claimCount
          /\ (cpc[c] = "begun" /\ cpc'[c] # "begun"
              /\ cop[c] \in JobIds(jobs) /\ jobs[cop[c]].status = "queued")
                => cpc'[c] = "selected"]_vars

\* reserve_job_by_id has selected a queued row while another job is being
\* downloaded
C17_Witness ==
    \E c \in Callers :
        /\ cpc[c] = "selected"
        /\ cop[c] # 0
        /\ crow[c] = cop[c]
        /\ \E k \in JobIds(jobs) : jobs[k].status = "downloading"

\* C18: a reserve_next_job that finds a queued job changes exactly one row:
\* its status becomes downloading, started_at is set and error_text is
\* cleared, nothing else of it changes; the job returned carries that row's
\* id and url and the status downloading; every other row is unchanged. With
\* no queued job it returns None and changes nothing.
C18_ClaimNextFrame ==
    [][\A c \in Callers : cop[c] = 0 =>
          /\ ReturnsJob(c) =>
                /\ ChangedRows(jobs, jobs') = {crow[c]}
                /\ Len(jobs') = Len(jobs)
                /\ jobs[crow[c]].status = "queued"
                /\ jobs'[crow[c]] =
                      [jobs[crow[c]] EXCEPT !.status = "downloading",
                                            !.started_at = clock,
                                            !.error_text = NULL,
                                            !.started_writes = 1]
                /\ jobs'[crow[c]].started_at # NoTime
                /\ ReturnedJob(jobs, crow[c]).id = crow[c]
                /\ ReturnedJob(jobs, crow[c]).url = jobs'[crow[c]].url
                /\ ReturnedJob(jobs, crow[c]).status = jobs'[crow[c]].status
                /\ claimCount'[crow[c]] = claimCount[crow[c]] + 1
          /\ ReturnsNone(c) =>
                /\ QueuedIds(jobs) = {}
                /\ jobs' = jobs
                /\ claimCount' = claimCount
          /\ (cpc[c] = "begun" /\ cpc'[c] # "begun" /\ QueuedIds(jobs) # {})
                => cpc'[c] = "selected"]_vars

\* reserve_next_job has selected one of two queued rows
C18_Witness ==
    \E c \in Callers :
        /\ cpc[c] = "selected"
        /\ cop[c] = 0
        /\ Cardinality(QueuedIds(jobs)) = 2

----------------------------------------------------------------------------
(* Spec: the worker thread of one WorkerRuntime (tui.py) *)

\* What the runtime actions leave alone: the statement-level callers of
\* SpecStore and the merge cascade
rest0 == <<dbLock, callerVars, storeHist, mergeVars, segVars, callVars>>

\* The same without the history of replace_transcript_segments
rest1 == <<dbLock, callerVars, storeHist, mergeVars, segs, fts, segSeq, sw, callVars>>

\* replace_transcript_segments(video_id=vid, segments=...) has returned: kept
\* as history, the rows themselves are SpecSegments' matter
SegmentsReplaced(vid) ==
    [segLast EXCEPT ![vid] = [called |-> TRUE, list |-> <<>>,
                              failed |-> FALSE]]

rest == <<rest0, notes>>

\* _should_stop at the top of _loop
ShouldStop ==
    /\ th.pc = "stopcheck"
    /\ th' = [th EXCEPT !.pc = IF rt.stop THEN "exit" ELSE "pausecheck"]
    /\ UNCHANGED <<jobs, clock, rt, proc, op, svc, files, videos, hist, rest>>

\* _is_paused_without_process and the branch it guards
IsPausedWithoutProcess ==
    /\ th.pc = "pausecheck"
    /\ IF rt.paused /\ rt.current_proc = NoProc
       THEN /\ rt' = [rt EXCEPT !.status = "paused"]
            /\ th' = [th EXCEPT !.pc = "stopcheck"]
       ELSE /\ th' = [th EXCEPT !.pc = "claim"]
            /\ UNCHANGED rt
    /\ UNCHANGED <<jobs, clock, proc, op, svc, files, videos, hist, rest>>

\* job = self.service.db.reserve_next_job() and the "if not job" branch. The
\* claim is one step here: SpecStore shows its transaction is exclusive.
LoopClaim ==
    /\ th.pc = "claim"
    /\ dbLock = 0
    /\ IF FirstQueued(jobs) = {}
       THEN /\ rt' = [rt EXCEPT
                        !.status = IF rt.paused THEN "paused" ELSE "idle"]
            /\ th' = [th EXCEPT !.pc = "stopcheck"]
            /\ UNCHANGED jobs
       ELSE \E id \in FirstQueued(jobs) :
            /\ jobs' = MarkDownloading(jobs, id, clock)
            /\ th' = [th EXCEPT !.pc = "reset", !.job = id]
            /\ UNCHANGED rt
    /\ UNCHANGED <<clock, proc, op, svc, files, videos, hist, rest>>

\* A plausible slip: the kill and delete flags survive into the next job
ResetForJobKeepingFlags ==
    /\ th.pc = "reset"
    /\ rt' = [rt EXCEPT !.status = "downloading",
                        !.current_job_id = th.job,
                        !.current_url = jobs[th.job].url,
                        !.current_video_id = NULL,
                        !.current_stage = "metadata",
                        !.local_video_path = NULL,
                        !.transcript_json_path = NULL,
                        !.last_error = NULL]
    /\ th' = [th EXCEPT !.pc = "spawn", !.exc = NULL]
    /\ UNCHANGED <<jobs, clock, proc, op, svc, files, videos, hist, rest>>

\* A plausible slip: the kill request of the job before is left standing
ResetForJobKeepingKill ==
    /\ th.pc = "reset"
    /\ rt' = [rt EXCEPT !.status = "downloading",
                        !.current_job_id = th.job,
                        !.current_url = jobs[th.job].url,
                        !.current_video_id = NULL,
                        !.current_stage = "metadata",
                        !.local_video_path = NULL,
                        !.transcript_json_path = NULL,
                        !.last_error = NULL,
                        !.delete_after_kill = FALSE]
    /\ th' = [th EXCEPT !.pc = "spawn", !.exc = NULL]
    /\ UNCHANGED <<jobs, clock, proc, op, svc, files, videos, hist, rest>>

\* _reset_for_job, and _process_job's first locked block (the same values)
ResetForJob ==
    /\ th.pc = "reset"
    /\ rt' = [rt EXCEPT !.status = "downloading",
                        !.current_job_id = th.job,
                        !.current_url = jobs[th.job].url,
                        !.current_video_id = NULL,
                        !.current_stage = "metadata",
                        !.local_video_path = NULL,
                        !.transcript_json_path = NULL,
                        !.last_error = NULL,
                        !.kill_requested = FALSE,
                        !.delete_after_kill = FALSE]
    /\ th' = [th EXCEPT !.pc = "spawn", !.exc = NULL]
    /\ UNCHANGED <<jobs, clock, proc, op, svc, files, videos, hist, rest>>

\* run_cmd: subprocess.Popen(cmd) for the stage's tool
RunCmdSpawn ==
    /\ th.pc = "spawn"
    /\ proc' = [id |-> [job |-> th.job, stage |-> rt.current_stage],
                state |-> "running"]
    /\ th' = [th EXCEPT !.pc = "register"]
    /\ UNCHANGED <<jobs, clock, rt, op, svc, files, videos, hist, rest>>

\* A plausible slip: a process spawned while paused is attached but not
\* stopped
RegisterProcessNoStop ==
    /\ th.pc = "register"
    /\ rt' = [rt EXCEPT !.current_proc = proc.id, !.proc_paused = FALSE]
    /\ th' = [th EXCEPT !.pc = "poll"]
    /\ UNCHANGED <<jobs, clock, proc, op, svc, files, videos, hist, rest>>

\* _register_process, called by run_cmd as on_process(proc)
RegisterProcess ==
    /\ th.pc = "register"
    /\ IF rt.paused /\ proc.state \in Alive
       THEN /\ proc' = [proc EXCEPT !.state = "stopped"]
            /\ rt' = [rt EXCEPT !.current_proc = proc.id,
                                !.proc_paused = TRUE]
       ELSE /\ rt' = [rt EXCEPT !.current_proc = proc.id,
                                !.proc_paused = FALSE]
            /\ UNCHANGED proc
    /\ th' = [th EXCEPT !.pc = "poll"]
    /\ UNCHANGED <<jobs, clock, op, svc, files, videos, hist, rest>>

\* run_cmd's loop "while proc.poll() is None": it ends when the process has
\* exited, or with proc.kill() when should_terminate() (_kill_pending) is true
RunCmdPoll ==
    /\ th.pc = "poll"
    /\ IF proc.state \in Alive
       THEN /\ rt.kill_requested
            /\ proc' = [proc EXCEPT !.state = "killed"]
       ELSE UNCHANGED proc
    /\ th' = [th EXCEPT !.pc = "post"]
    /\ UNCHANGED <<jobs, clock, rt, op, svc, files, videos, hist, rest>>

\* run_cmd is over: the process has ended and its exit code has been read
Reaped == [id |-> NoProc, state |-> "none"]

\* raise PipelineError(...) inside _process_job: control goes to _loop's
\* except clause. A failure of the stage's own (not the exit of a process
\* that was sent SIGKILL) is recorded in the history.
Raise(msg, own) ==
    /\ th' = [th EXCEPT !.pc = "handler", !.exc = msg]
    /\ hist' = IF own THEN [hist EXCEPT !.failure = msg] ELSE hist

\* run_cmd's "if completed.returncode != 0: raise PipelineError(Command
\* failed (<code>) ...)": the code is the tool's own, or -9 / None after kill()
RunCmdRaises ==
    /\ th.pc = "post"
    /\ proc.state # "exit0"
    /\ IF proc.state = "exit1"
       THEN Raise("command failed (1)", TRUE)
       ELSE Raise("command failed (-9)", FALSE)
    /\ proc' = Reaped
    /\ UNCHANGED <<jobs, clock, rt, op, svc, files, videos, rest>>

\* A plausible slip: the content record is left for a later stage to write
MetadataReturnWithoutUpsert ==
    /\ th.pc = "post"
    /\ proc.state = "exit0"
    /\ rt.current_stage = "metadata"
    /\ \E has_id \in BOOLEAN :
        IF has_id
        THEN /\ rt' = [rt EXCEPT !.current_proc = NoProc,
                                 !.proc_paused = FALSE,
                                 !.current_video_id = VidOf(rt.current_url),
                                 !.current_stage = "download"]
             /\ th' = [th EXCEPT !.pc = "spawn"]
             /\ UNCHANGED hist
        ELSE /\ rt' = [rt EXCEPT !.current_proc = NoProc,
                                 !.proc_paused = FALSE]
             /\ Raise("no video id", TRUE)
    /\ proc' = Reaped
    /\ UNCHANGED <<jobs, clock, op, svc, files, videos, rest>>

\* fetch_video_metadata returned: _clear_process, the video id test, the
\* locked block setting the download stage, upsert_video
MetadataReturn ==
    /\ th.pc = "post"
    /\ proc.state = "exit0"
    /\ rt.current_stage = "metadata"
    /\ \E has_id \in BOOLEAN :
        IF has_id
        THEN /\ rt' = [rt EXCEPT !.current_proc = NoProc,
                                 !.proc_paused = FALSE,
                                 !.current_video_id = VidOf(rt.current_url),
                                 !.current_stage = "download"]
             /\ videos' = videos \cup {VidOf(rt.current_url)}
             /\ th' = [th EXCEPT !.pc = "spawn"]
             /\ UNCHANGED hist
        ELSE /\ rt' = [rt EXCEPT !.current_proc = NoProc,
                                 !.proc_paused = FALSE]
             /\ Raise("no video id", TRUE)
             /\ UNCHANGED videos
    /\ proc' = Reaped
    /\ UNCHANGED <<jobs, clock, op, svc, files, rest>>

\* download_video after run_cmd returned (the media file is found, or
\* _ensure_audio_ready_media raises), then _process_job up to and into
\* transcribe_video: _clear_process, the locked block, update_job_status(
\* "transcribing"), output_dir.mkdir and the has_audio test
DownloadReturn ==
    /\ th.pc = "post"
    /\ proc.state = "exit0"
    /\ rt.current_stage = "download"
    /\ LET vid == rt.current_video_id
       IN  IF "media" \notin files[vid]
           THEN /\ Raise("no media", TRUE)
                /\ UNCHANGED <<rt, jobs, files>>
           ELSE /\ rt' = [rt EXCEPT !.current_proc = NoProc,
                                    !.proc_paused = FALSE,
                                    !.local_video_path = vid,
                                    !.status = "transcribing",
                                    !.current_stage = "transcribe"]
                /\ jobs' = UpdateJobStatus(jobs, th.job, "transcribing",
                              [NoFields EXCEPT !.video_id = vid,
                                               !.local_video_path = vid],
                              clock)
                /\ files' = [files EXCEPT ![vid] = @ \cup {"tdir"}]
                /\ \E has_audio \in BOOLEAN :
                     IF has_audio
                     THEN /\ th' = [th EXCEPT !.pc = "spawn"]
                          /\ UNCHANGED hist
                     ELSE Raise("no audio", TRUE)
    /\ proc' = Reaped
    /\ UNCHANGED <<clock, op, svc, videos, rest>>

\* transcribe_video after run_cmd returned (_resolve_whisper_output finds a
\* JSON file or raises), then _clear_process and the locked block
TranscribeReturn ==
    /\ th.pc = "post"
    /\ proc.state = "exit0"
    /\ rt.current_stage = "transcribe"
    /\ \E found \in BOOLEAN :
        IF found
        THEN /\ rt' = [rt EXCEPT !.current_proc = NoProc,
                                 !.proc_paused = FALSE,
                                 !.transcript_json_path = rt.current_video_id,
                                 !.current_stage = "index"]
             /\ th' = [th EXCEPT !.pc = "index"]
             /\ UNCHANGED hist
        ELSE /\ Raise("no transcript", TRUE)
             /\ UNCHANGED rt
    /\ proc' = Reaped
    /\ UNCHANGED <<jobs, clock, op, svc, files, videos, rest>>

\* load_whisper_segments (which may raise), replace_transcript_segments,
\* update_job_status("done"), and back in _loop _notify("done")
IndexStage ==
    /\ th.pc = "index"
    /\ \E loaded \in BOOLEAN :
        IF loaded
        THEN /\ jobs' = UpdateJobStatus(jobs, th.job, "done",
                          [NoFields EXCEPT
                             !.video_id = rt.current_video_id,
                             !.local_video_path = rt.local_video_path,
                             !.transcript_json_path = rt.transcript_json_path],
                          clock)
             /\ \E d \in Deliveries :
                    notes' = Notify(notes, th.job, "done", d)
             /\ segLast' = SegmentsReplaced(rt.current_video_id)
             /\ th' = [th EXCEPT !.pc = "finally"]
             /\ UNCHANGED hist
        ELSE /\ Raise("bad segments", TRUE)
             /\ UNCHANGED <<jobs, notes, segLast>>
    /\ UNCHANGED <<clock, rt, proc, op, svc, files, videos, rest1>>

\* A plausible slip: the handler records the exception's text, always
ExceptHandlerNoKillText ==
    /\ th.pc = "handler"
    /\ rt' = [rt EXCEPT !.kill_requested = FALSE]
    /\ jobs' = UpdateJobStatus(jobs, th.job, "failed",
                  [NoFields EXCEPT !.error_text = th.exc], clock)
    /\ th' = [th EXCEPT !.pc = "cleanup"]
    /\ UNCHANGED <<clock, proc, op, svc, files, videos, hist, rest>>

\* _loop's except clause: _consume_kill_requested, err, update_job_status(
\* "failed", error_text=err)
ExceptHandler ==
    /\ th.pc = "handler"
    /\ LET user_killed == rt.kill_requested
           err == IF user_killed THEN KILLED_BY_USER ELSE th.exc
       IN  /\ rt' = [rt EXCEPT !.kill_requested = FALSE]
           /\ jobs' = UpdateJobStatus(jobs, th.job, "failed",
                         [NoFields EXCEPT !.error_text = err], clock)
           /\ th' = [th EXCEPT !.pc = "cleanup", !.exc = err]
    /\ UNCHANGED <<clock, proc, op, svc, files, videos, hist, rest>>

\* The files _maybe_cleanup_partial removes when should_delete: the file at
\* local_video_path, and the transcript directory (the parent of
\* transcript_json_path, or transcript_dir/<video id>)
CleanupRemoves ==
    (IF rt.local_video_path # NULL THEN {"media"} ELSE {})
    \cup (IF rt.transcript_json_path # NULL \/ rt.current_video_id # NULL
          THEN {"tdir"} ELSE {})

\* _maybe_cleanup_partial
MaybeCleanupPartial ==
    /\ th.pc = "cleanup"
    /\ rt' = [rt EXCEPT !.delete_after_kill = FALSE,
                        !.current_proc = NoProc,
                        !.proc_paused = FALSE]
    /\ files' = IF rt.delete_after_kill /\ rt.current_video_id # NULL
                THEN [files EXCEPT ![rt.current_video_id] = @ \ CleanupRemoves]
                ELSE files
    /\ th' = [th EXCEPT !.pc = "failed"]
    /\ UNCHANGED <<jobs, clock, proc, op, svc, videos, hist, rest>>

\* The except clause's locked block (last_error, status) and _notify("failed")
RecordFailed ==
    /\ th.pc = "failed"
    /\ rt' = [rt EXCEPT !.last_error = th.exc, !.status = "failed"]
    /\ \E d \in Deliveries : notes' = Notify(notes, th.job, "failed", d)
    /\ th' = [th EXCEPT !.pc = "finally"]
    /\ UNCHANGED <<jobs, clock, proc, op, svc, files, videos, hist, rest0>>

\* A plausible slip: the finally clause leaves the status as it is
FinallyKeepsStatus ==
    /\ th.pc = "finally"
    /\ rt' = [rt EXCEPT !.current_job_id = NoJob,
                        !.current_url = NULL,
                        !.current_stage = NULL,
                        !.current_video_id = NULL,
                        !.local_video_path = NULL,
                        !.transcript_json_path = NULL]
    /\ th' = [th EXCEPT !.pc = "stopcheck", !.job = NoJob, !.exc = NULL]
    /\ hist' = NoHistory
    /\ UNCHANGED <<jobs, clock, proc, op, svc, files, videos, rest>>

\* _loop's finally clause, and back to the top of the loop
Finally ==
    /\ th.pc = "finally"
    /\ rt' = [rt EXCEPT !.current_job_id = NoJob,
                        !.current_url = NULL,
                        !.current_stage = NULL,
                        !.current_video_id = NULL,
                        !.local_video_path = NULL,
                        !.transcript_json_path = NULL,
                        !.status = IF @ # "paused" THEN "idle" ELSE @]
    /\ th' = [th EXCEPT !.pc = "stopcheck", !.job = NoJob, !.exc = NULL]
    /\ hist' = NoHistory
    /\ UNCHANGED <<jobs, clock, proc, op, svc, files, videos, rest>>

----------------------------------------------------------------------------
(* Spec: the operator thread calling into the WorkerRuntime *)

\* "proc and proc.poll() is None" for the handle a call read under the lock
HandleAlive(h) == h # NoProc /\ h = proc.id /\ proc.state \in Alive

KillKind(delete_files) == IF delete_files THEN "delete" ELSE "keep"

\* History: the worker has a current job whose outcome is not stored yet
\* (update_job_status("done") has not run and _loop's except clause has not
\* read the kill flag)
Unhandled ==
    rt.current_job_id # NoJob /\ th.pc \notin {"cleanup", "failed", "finally"}

\* toggle_pause: the locked block
TogglePause ==
    /\ op.pc = "idle"
    /\ rt' = [rt EXCEPT !.paused = ~rt.paused]
    /\ op' = [pc |-> "toggle", proc |-> rt.current_proc,
              paused_now |-> ~rt.paused]
    /\ UNCHANGED <<jobs, clock, th, proc, svc, files, videos, hist, rest>>

\* A plausible slip: no SIGCONT when the worker is resumed
TogglePauseSignalNoResume ==
    /\ op.pc = "toggle"
    /\ IF HandleAlive(op.proc) /\ op.paused_now
       THEN /\ proc' = [proc EXCEPT !.state = "stopped"]
            /\ rt' = [rt EXCEPT !.proc_paused = TRUE]
       ELSE UNCHANGED <<proc, rt>>
    /\ op' = [pc |-> "idle", proc |-> NoProc, paused_now |-> FALSE]
    /\ UNCHANGED <<jobs, clock, th, svc, files, videos, hist, rest>>

\* toggle_pause: SIGSTOP or SIGCONT to the handle read, then the return
TogglePauseSignal ==
    /\ op.pc = "toggle"
    /\ IF HandleAlive(op.proc)
       THEN /\ proc' = [proc EXCEPT !.state = IF op.paused_now
                                               THEN "stopped" ELSE "running"]
            /\ rt' = [rt EXCEPT !.proc_paused = op.paused_now]
       ELSE UNCHANGED <<proc, rt>>
    /\ op' = [pc |-> "idle", proc |-> NoProc, paused_now |-> FALSE]
    /\ UNCHANGED <<jobs, clock, th, svc, files, videos, hist, rest>>

\* A plausible slip: the flags are set before the test for a current job
KillActiveWithoutJobTest(delete_files) ==
    /\ op.pc = "idle"
    /\ rt' = [rt EXCEPT !.kill_requested = TRUE,
                        !.delete_after_kill = delete_files]
    /\ IF rt.current_job_id = NoJob
       THEN UNCHANGED <<op, hist>>
       ELSE /\ op' = [op EXCEPT !.pc = "kill", !.proc = rt.current_proc]
            /\ hist' = [hist EXCEPT
                          !.killReq = @ \/ Unhandled,
                          !.killAck = IF Unhandled
                                      THEN KillKind(delete_files) ELSE @,
                          !.lastKill = KillKind(delete_files)]
    /\ UNCHANGED <<jobs, clock, th, proc, svc, files, videos, rest>>

\* kill_active(delete_files): the locked block; with no current job it
\* returns False there
KillActive(delete_files) ==
    /\ op.pc = "idle"
    /\ IF rt.current_job_id = NoJob
       THEN UNCHANGED <<rt, op, hist>>
       ELSE /\ rt' = [rt EXCEPT !.kill_requested = TRUE,
                                !.delete_after_kill = delete_files]
            /\ op' = [op EXCEPT !.pc = "kill", !.proc = rt.current_proc]
            /\ hist' = [hist EXCEPT
                          !.killReq = @ \/ Unhandled,
                          !.killAck = IF Unhandled
                                      THEN KillKind(delete_files) ELSE @,
                          !.lastKill = KillKind(delete_files)]
    /\ UNCHANGED <<jobs, clock, th, proc, svc, files, videos, rest>>

\* kill_active: proc.kill() on the handle read, then "return True"
KillActiveSignal ==
    /\ op.pc = "kill"
    /\ proc' = IF HandleAlive(op.proc)
               THEN [proc EXCEPT !.state = "killed"] ELSE proc
    /\ op' = [op EXCEPT !.pc = "idle", !.proc = NoProc]
    /\ UNCHANGED <<jobs, clock, rt, th, svc, files, videos, hist, rest>>

\* stop: the locked block
Stop ==
    /\ op.pc = "idle"
    /\ rt' = [rt EXCEPT !.stop = TRUE, !.kill_requested = TRUE]
    /\ op' = [op EXCEPT !.pc = "stop", !.proc = rt.current_proc]
    /\ hist' = [hist EXCEPT !.killReq = @ \/ Unhandled]
    /\ UNCHANGED <<jobs, clock, th, proc, svc, files, videos, rest>>

\* stop: proc.kill() on the handle read, then join(timeout=5), which returns
\* whether or not the thread has ended; the operator makes no call after it
StopSignal ==
    /\ op.pc = "stop"
    /\ proc' = IF HandleAlive(op.proc)
               THEN [proc EXCEPT !.state = "killed"] ELSE proc
    /\ op' = [op EXCEPT !.pc = "quit", !.proc = NoProc]
    /\ UNCHANGED <<jobs, clock, rt, th, svc, files, videos, hist, rest>>

----------------------------------------------------------------------------
(* Spec: the external process *)

\* The tool ends of its own accord with exit code 0 or 1; a stopped process
\* does not run. yt-dlp's download leaves the media file when it exits 0.
ProcExit(code) ==
    /\ proc.state = "running"
    /\ proc' = [proc EXCEPT !.state = code]
    /\ files' = IF code = "exit0" /\ proc.id.stage = "download"
                THEN [files EXCEPT ![VidOf(jobs[proc.id.job].url)] =
                                      (@ \ {"part"}) \cup {"media"}]
                ELSE files
    /\ UNCHANGED <<jobs, clock, rt, th, op, svc, videos, hist, rest>>

\* yt-dlp's download writes <id>.<ext>.part while it runs
ProcWrite ==
    /\ proc.state = "running"
    /\ proc.id.stage = "download"
    /\ "part" \notin files[VidOf(jobs[proc.id.job].url)]
    /\ files' = [files EXCEPT ![VidOf(jobs[proc.id.job].url)] =
                                  @ \cup {"part"}]
    /\ UNCHANGED <<jobs, clock, rt, th, proc, op, svc, videos, hist, rest>>

----------------------------------------------------------------------------
(* Spec: one worker of IngesterService (service.py) *)

\* A plausible slip: a claim by id that does not look at the row's status
SvcReservableAnyStatus(id) == id \in JobIds(jobs)

\* reserve_job_by_id returns a job: the row exists and is queued
SvcReservable(id) == id \in JobIds(jobs) /\ jobs[id].status = "queued"

\* _worker_loop's reserve_next_job, or process_job_id's reserve_job_by_id(id)
\* (id = NoJob stands for reserve_next_job); a claim returning nothing leaves
\* everything as it was
SvcClaim(id) ==
    /\ svc.pc = "idle"
    /\ dbLock = 0
    /\ \E j \in (IF id = NoJob THEN FirstQueued(jobs) ELSE {id}) :
        /\ SvcReservable(j)
        /\ jobs' = MarkDownloading(jobs, j, clock)
        /\ svc' = [pc |-> "download", job |-> j, exc |-> NULL]
    /\ UNCHANGED <<clock, rt, th, proc, op, files, videos, hist, rest>>

\* raise inside IngesterService._process_job
SvcRaise(msg) == svc' = [svc EXCEPT !.pc = "handler", !.exc = msg]

\* IngesterService._process_job up to update_job_status("transcribing"):
\* fetch_video_metadata, the id test, upsert_video, download_video. A
\* failure before upsert_video leaves no content record, one after it does.
SvcDownload ==
    /\ svc.pc = "download"
    /\ LET vid == VidOf(jobs[svc.job].url)
       IN  \E r \in {"ok", "no video id", "command failed (1)"} :
            /\ videos' = IF r = "no video id" THEN videos
                         ELSE videos \cup {vid}
            /\ IF r = "ok"
               THEN /\ files' = [files EXCEPT ![vid] = @ \cup {"media"}]
                    /\ jobs' = UpdateJobStatus(jobs, svc.job, "transcribing",
                                  [NoFields EXCEPT !.video_id = vid,
                                                   !.local_video_path = vid],
                                  clock)
                    /\ svc' = [svc EXCEPT !.pc = "transcribe"]
               ELSE SvcRaise(r) /\ UNCHANGED <<files, jobs>>
    /\ UNCHANGED <<clock, rt, th, proc, op, hist, rest>>

\* The rest of IngesterService._process_job: transcribe_video (which makes
\* the transcript directory first), load_whisper_segments,
\* replace_transcript_segments, update_job_status("done"), _notify("done")
SvcTranscribe ==
    /\ svc.pc = "transcribe"
    /\ LET vid == VidOf(jobs[svc.job].url)
       IN  /\ files' = [files EXCEPT ![vid] = @ \cup {"tdir"}]
           /\ \E r \in {"ok", "no audio", "bad segments"} :
                IF r = "ok"
                THEN /\ jobs' = UpdateJobStatus(jobs, svc.job, "done",
                               [NoFields EXCEPT !.video_id = vid,
                                                !.local_video_path = vid,
                                                !.transcript_json_path = vid],
                               clock)
                     /\ \E d \in Deliveries :
                            notes' = Notify(notes, svc.job, "done", d)
                     /\ segLast' = SegmentsReplaced(vid)
                     /\ svc' = [pc |-> "idle", job |-> NoJob, exc |-> NULL]
                ELSE SvcRaise(r) /\ UNCHANGED <<jobs, notes, segLast>>
    /\ UNCHANGED <<clock, rt, th, proc, op, videos, hist, rest1>>

\* The except clause of _worker_loop / process_job_id_with_progress:
\* update_job_status("failed", error_text=str(exc)), _notify("failed")
SvcExcept ==
    /\ svc.pc = "handler"
    /\ jobs' = UpdateJobStatus(jobs, svc.job, "failed",
                  [NoFields EXCEPT !.error_text = svc.exc], clock)
    /\ \E d \in Deliveries : notes' = Notify(notes, svc.job, "failed", d)
    /\ svc' = [pc |-> "idle", job |-> NoJob, exc |-> NULL]
    /\ UNCHANGED <<clock, rt, th, proc, op, files, videos, hist, rest0>>

----------------------------------------------------------------------------
(* Spec: the whole system *)

\* The urls enqueued (one enqueue call, default priority) before the workers
\* start: one job, two jobs of one content, two jobs of different contents
InitialQueues == {<<"u1">>, <<"u1", "u1">>, <<"u1", "u2">>}

QueueInit ==
    /\ \E urls \in InitialQueues : jobs = InsertAll(<<>>, urls, 0, 1)
    /\ clock = 1
    /\ dbLock = 0
    /\ cpc = [c \in Callers |-> "idle"]
    /\ crow = [c \in Callers |-> NoJob]
    /\ cop = [c \in Callers |-> NoJob]
    /\ upd = UpdIdle
    /\ SegIdle
    /\ claimCount = [j \in 1..MaxJobs |-> 0]
    /\ nextDone = 0
    /\ MergeIdle
    /\ RtInit

Init == QueueInit /\ Quiet

Next ==
    \/ ShouldStop
    \/ IsPausedWithoutProcess
    \/ LoopClaim
    \/ ResetForJob
    \/ RunCmdSpawn
    \/ RegisterProcess
    \/ RunCmdPoll
    \/ RunCmdRaises
    \/ MetadataReturn
    \/ DownloadReturn
    \/ TranscribeReturn
    \/ IndexStage
    \/ ExceptHandler
    \/ MaybeCleanupPartial
    \/ RecordFailed
    \/ Finally
    \/ TogglePause
    \/ TogglePauseSignal
    \/ \E delete_files \in BOOLEAN : KillActive(delete_files)
    \/ KillActiveSignal
    \/ Stop
    \/ StopSignal
    \/ \E code \in {"exit0", "exit1"} : ProcExit(code)
    \/ ProcWrite
    \/ \E id \in {NoJob} \cup JobIds(jobs) : SvcClaim(id)
    \/ SvcDownload
    \/ SvcTranscribe
    \/ SvcExcept

Spec == Init /\ [][Next]_vars

----------------------------------------------------------------------------
(* Properties of Spec *)

\* C2: a job's stored status changes only along queued -> downloading ->
\* transcribing -> done, or from downloading or transcribing to failed; done
\* and failed are never left.
AllowedTransitions ==
    {<<"queued", "downloading">>, <<"downloading", "transcribing">>,
     <<"transcribing", "done">>, <<"downloading", "failed">>,
     <<"transcribing", "failed">>}

OwnFailureHandled ==
    th.pc \in {"cleanup", "failed", "finally"} /\ hist.failure # NULL

\* The worker thread is in a stage of _process_job
InStage == th.pc \in {"spawn", "register", "poll", "post", "index"}

\* C4 as stated: when a stage of the worker's job fails, the job is stored
\* failed with the failure's message as error_text; no later stage runs;
\* the claim loop ends only by stop(). The message a service worker's
\* except clause stores is never the kill text.
C4_FailureTextAlways ==
    /\ OwnFailureHandled
         => /\ jobs[th.job].status = "failed"
            /\ jobs[th.job].error_text = hist.failure
    /\ th.exc # NULL => ~InStage
    /\ th.pc = "exit" => rt.stop
    /\ svc.pc = "handler" => svc.exc # KILLED_BY_USER

\* C4, amended: when a stage of the worker's job fails, the job is stored
\* failed, with the failure's message as error_text unless a kill was
\* requested on the worker (kill_active returned True, or stop()) during the
\* job and before the failure was handled, in which case error_text is
\* 'killed by user'; no later stage runs; the claim loop ends only by stop().
\* The message a service worker's except clause stores is never the kill
\* text.
C4_FailureText ==
    /\ OwnFailureHandled
         => /\ jobs[th.job].status = "failed"
            /\ jobs[th.job].error_text =
                 IF hist.killReq THEN KILLED_BY_USER ELSE hist.failure
    /\ th.exc # NULL => ~InStage
    /\ th.pc = "exit" => rt.stop
    /\ svc.pc = "handler" => svc.exc # KILLED_BY_USER

\* The worker's first job failed in the transcribe stage (a message only the
\* worker's own transcribe stage gives), and the worker has gone on to claim
\* the second job
C4_Witness ==
    /\ Len(jobs) = 2
    /\ jobs[1].status = "failed" /\ jobs[1].error_text = "no transcript"
    /\ rt.current_job_id = 2 /\ rt.status = "downloading"

\* C5: if kill_active has returned True for the worker's job, called while
\* the job was being processed, the job is not stored done, and it ends
\* failed with error_text 'killed by user'.
C5_KilledJobFails ==
    (hist.killAck # NULL /\ op.pc # "kill")
    => /\ jobs[th.job].status # "done"
       /\ th.pc = "finally"
            => /\ jobs[th.job].status = "failed"
               /\ jobs[th.job].error_text = KILLED_BY_USER

\* No other job has the url (so the content id and the files) of job j
NoSibling(j) == \A k \in JobIds(jobs) \ {j} : jobs[k].url # jobs[j].url

\* C6: if kill_active(delete_files=True) has returned True for the worker's
\* job (and no later kill_active changed the request), then once the worker has
\* handled the failure, no media file (partial or complete) and no
\* transcript directory of the job is on disk, and the job is stored failed
\* with error_text 'killed by user'.
C6_KillDeleteRemovesFiles ==
    (/\ th.pc \in {"failed", "finally"}
     /\ th.exc # NULL
     /\ hist.killAck = "delete"
     /\ hist.lastKill = "delete"
     /\ op.pc # "kill"
     /\ NoSibling(th.job))
    => /\ files[VidOf(jobs[th.job].url)] = {}
       /\ jobs[th.job].status = "failed"
       /\ jobs[th.job].error_text = KILLED_BY_USER

\* A media file or a transcript directory leaves the disk
Removed ==
    \E v \in Vids : (files[v] \ files'[v]) \cap {"media", "tdir"} # {}

\* C7 as stated, with stop() counted as a kill request: files are removed
\* only when kill_active(delete_files=True) was the latest kill request of
\* the job.
C7_DeleteOnlyOnLatestRequest ==
    [][Removed => (hist.lastKill = "delete" /\ ~rt.stop)]_vars

\* C7, amended: files are removed only by the worker's cleanup, only of the
\* content of its current job, and only when the latest kill_active call
\* made during that job had delete_files=True; stop() neither asks for nor
\* cancels the removal, and after kill_active(delete_files=False) or a
\* failure without any kill_active call no file is removed.
C7_DeleteOnlyOnRequest ==
    [][Removed
       => /\ hist.lastKill = "delete"
          /\ th.pc = "cleanup"
          /\ \A v \in Vids \ {VidOf(jobs[th.job].url)} : files'[v] = files[v]
      ]_vars

\* The cleanup has removed the media file of a job killed with
\* delete_files=True in its transcribe stage
C7_Witness ==
    /\ th.pc = "failed"
    /\ hist.lastKill = "delete"
    /\ rt.local_video_path # NULL
    /\ files[rt.current_video_id] = {}
    /\ NoSibling(th.job)

\* The pause flag is set, toggle_pause has returned, and a live process is
\* attached
PausedWithProcess ==
    /\ rt.paused
    /\ op.pc # "toggle"
    /\ HandleAlive(rt.current_proc)

\* C8 (state): with no toggle_pause call under way, an attached live process
\* is stopped exactly when the pause flag is set: suspended while paused,
\* running again after a resume.
C8_SuspendedWhilePaused ==
    (op.pc # "toggle" /\ HandleAlive(rt.current_proc))
    => (proc.state = "stopped" <=> rt.paused)

\* C8 (steps): while the pause flag is set and a live process is attached,
\* the job's stage and stored status stay as they are and the worker stays
\* in run_cmd's loop, until toggle_pause is called or the process is killed.
C8_NoProgressWhilePaused ==
    [][PausedWithProcess
       => \/ /\ PausedWithProcess'
             /\ rt'.current_stage = rt.current_stage
             /\ jobs'[th.job].status = jobs[th.job].status
             /\ th' = th
          \/ op'.pc = "toggle"
          \/ proc'.state = "killed"
      ]_vars

\* C8: both parts
C8_PauseSuspends == []C8_SuspendedWhilePaused /\ C8_NoProgressWhilePaused

\* The pause flag is set, toggle_pause has returned, and the worker's
\* transcribe process is attached, alive and stopped
C8_Witness ==
    /\ PausedWithProcess
    /\ proc.state = "stopped"
    /\ proc.id.stage = "transcribe"

\* C9: when the worker's reserve_next_job returns a job, it is not the case
\* that the pause flag is set with toggle_pause having returned 'paused'.
C9_NoClaimWhilePaused ==
    [][(th.pc = "claim" /\ th'.pc = "reset")
       => ~(rt.paused /\ op.pc # "toggle")]_vars

----------------------------------------------------------------------------
(* Selection among candidates: resolve_playback_media_path, download_video *)

\* The candidates with both an audio and a video stream
WithBoth(c) == WithAudio(c, WithVideo(c, DOMAIN c))

\* The container rank as the specification words it: mp4 and mkv highest,
\* then webm and mov, then m4v, every other container lowest
StatedRank(ext) ==
    CASE ext \in {".mp4", ".mkv"} -> 3
      [] ext \in {".webm", ".mov"} -> 2
      [] ext = ".m4v" -> 1
      [] OTHER -> 0

NotBelowAsStated(c, p, q) ==
    \/ StatedRank(Suffix(p)) > StatedRank(Suffix(q))
    \/ StatedRank(Suffix(p)) = StatedRank(Suffix(q)) /\ c[p].size >= c[q].size

NotBelow(c, p, q) ==
    \/ VideoExtRank(Suffix(p)) > VideoExtRank(Suffix(q))
    \/ VideoExtRank(Suffix(p)) = VideoExtRank(Suffix(q))
          /\ c[p].size >= c[q].size

\* C13 as stated: when a candidate has both audio and video,
\* resolve_playback_media_path returns such a candidate without running a
\* merge, the maximum by (rank, size) with mp4 and mkv sharing the highest
\* rank, webm and mov the next, m4v below them and other containers lowest.
C13_BestByStatedRank ==
    [][(mpc = "resolve" /\ WithBoth(cands) # {})
          => /\ mpc' = "done"
             /\ attempts' = <<>>
             /\ mresult' \in WithBoth(cands)
             /\ \A q \in WithBoth(cands) : NotBelowAsStated(cands, mresult', q)]_vars

\* C13 amended: when a candidate has both audio and video,
\* resolve_playback_media_path returns such a candidate without running a
\* merge, the maximum by (rank, size) with mkv ranked highest, then mp4, then
\* webm, then mov and m4v together, and every other container lowest;
\* candidates of equal rank are ordered by file size.
C13_BestByVideoRank ==
    [][(mpc = "resolve" /\ WithBoth(cands) # {})
          => /\ mpc' = "done"
             /\ attempts' = <<>>
             /\ mresult' \in WithBoth(cands)
             /\ \A q \in WithBoth(cands) : NotBelow(cands, mresult', q)]_vars

\* A smaller mkv was returned although a larger mp4 has both streams too
C13_Witness ==
    /\ mpc = "done"
    /\ attempts = <<>>
    /\ {"id.mkv", "id.mp4"} \subseteq WithBoth(cands)
    /\ cands["id.mkv"].size < cands["id.mp4"].size
    /\ mresult = "id.mkv"

\* resolve_playback_media_path returns or raises in this step
ResolveEnds == mpc # "done" /\ mpc' = "done"

C15_RaisesWithoutVideo ==
    [][(mpc = "resolve" /\ \A p \in DOMAIN cands : cands[p].video # "yes")
          => /\ mpc' = "done"
             /\ mresult' = RAISED
             /\ attempts' = <<>>]_vars

\* Raised for a missing preferred path and a file whose video probe is unknown
C15_Witness ==
    /\ mpc = "done"
    /\ preferred = MISSING
    /\ \E p \in DOMAIN cands : cands[p].video = "unknown"
    /\ \A p \in DOMAIN cands : cands[p].video # "yes"
    /\ mresult = RAISED

\* C16: when download_video finds <id>.mp4 absent or without audio and the
\* directory holds one video-only and one audio-only file, the path it
\* returns is a merged file with both audio and video, not one of the two
\* inputs.
C16_DownloadReturnsMerged ==
    [][(/\ mpc = "download"
        /\ SplitPair(cands)
        /\ ~("id.mp4" \in DOMAIN cands /\ cands["id.mp4"].audio = "yes"))
          => /\ mresult' \notin DOMAIN cands
             /\ mresult' \in MergedOutputs]_vars

----------------------------------------------------------------------------
(* SpecUpdate: one call of update_job_status on a table of jobs *)

\* The rows the workers' calls leave behind, by stage: enqueue; the claim;
\* update_job_status("transcribing", video_id, local_video_path);
\* update_job_status("done", ...); update_job_status("failed", error_text)
\* out of the download stage and out of the transcribe stage.
RowQueued == NewJob("u1", 0, 1)

RowDownloading == MarkDownloading(<<RowQueued>>, 1, 1)[1]

RowTranscribing ==
    UpdateJobStatus(<<RowDownloading>>, 1, "transcribing",
                    [NoFields EXCEPT !.video_id = "v1",
                                     !.local_video_path = "v1"], 1)[1]

RowDone ==
    UpdateJobStatus(<<RowTranscribing>>, 1, "done",
                    [NoFields EXCEPT !.video_id = "v1",
                                     !.local_video_path = "v1",
                                     !.transcript_json_path = "v1"], 2)[1]

RowFailedInDownload ==
    UpdateJobStatus(<<RowDownloading>>, 1, "failed",
                    [NoFields EXCEPT !.error_text = "e1"], 2)[1]

RowFailedInTranscribe ==
    UpdateJobStatus(<<RowTranscribing>>, 1, "failed",
                    [NoFields EXCEPT !.error_text = "e1"], 2)[1]

RowStates ==
    {RowQueued, RowDownloading, RowTranscribing, RowDone,
     RowFailedInDownload, RowFailedInTranscribe}

Tables == UNION {[1..n -> RowStates] : n \in 1..MaxJobs}

\* The keyword arguments of a call: each one given or left None
GivenFields ==
    [error_text : {NULL, "e2"}, video_id : {NULL, "v2"},
     local_video_path : {NULL, "v2"}, transcript_json_path : {NULL, "v2"}]

\* The calls: a row id of the table or one past it, any status
UpdCalls ==
    [pc : {"call"}, id : 1..(MaxJobs + 1), status : Statuses, f : GivenFields]

\* utc_now_iso() of the call: later than every time the table holds
LaterTime == RowDone.finished_at + 1

UpdateInit ==
    /\ jobs \in Tables
    /\ clock = LaterTime
    /\ dbLock = 0
    /\ cpc = [c \in Callers |-> "idle"]
    /\ crow = [c \in Callers |-> NoJob]
    /\ cop = [c \in Callers |-> NoJob]
    /\ upd \in UpdCalls
    /\ SegIdle
    /\ claimCount = [j \in 1..MaxJobs |-> 0]
    /\ nextDone = 0
    /\ MergeIdle
    /\ RtInit
    /\ Quiet

\* DB.update_job_status: one UPDATE in its own transaction
UpdateStatusCall ==
    /\ upd.pc = "call"
    /\ dbLock = 0
    /\ jobs' = UpdateJobStatus(jobs, upd.id, upd.status, upd.f, clock)
    /\ upd' = [upd EXCEPT !.pc = "returned"]
    /\ UNCHANGED <<clock, dbLock, cpc, crow, cop, storeHist, mergeVars, rtVars, segVars, callVars, notes>>

UpdateNext == UpdateStatusCall

SpecUpdate == UpdateInit /\ [][UpdateNext]_vars

\* C19: update_job_status sets the row's status; for each of video_id,
\* local_video_path, transcript_json_path and error_text it stores the value
\* given and keeps the stored one when none is given; it writes finished_at
\* when and only when the new status is done or failed; it changes no other
\* column and no other row, and nothing when the id does not exist.
C19_UpdateStatusFrame ==
    [][(upd.pc = "call" /\ upd'.pc = "returned")
          => /\ Len(jobs') = Len(jobs)
             /\ \A k \in JobIds(jobs) \ {upd.id} : jobs'[k] = jobs[k]
             /\ upd.id \in JobIds(jobs) =>
                  LET old == jobs[upd.id]
                      new == jobs'[upd.id]
                  IN  /\ new.status = upd.status
                      /\ \A x \in DOMAIN upd.f :
                            new[x] = IF upd.f[x] # NULL THEN upd.f[x]
                                     ELSE old[x]
                      /\ upd.status \in {"done", "failed"}
                            => /\ new.finished_at = clock
                               /\ new.finished_writes = old.finished_writes + 1
                      /\ upd.status \notin {"done", "failed"}
                            => /\ new.finished_at = old.finished_at
                               /\ new.finished_writes = old.finished_writes
                      /\ \A x \in {"url", "priority", "created_at",
                                   "started_at", "started_writes"} :
                            new[x] = old[x]]_vars

\* A failed update of a transcribing row of a two-row table: the error text
\* given is stored, the video id stored before is kept, finished_at is the
\* call's time
C19_Witness ==
    /\ upd.pc = "returned"
    /\ upd.status = "failed"
    /\ upd.f.error_text = "e2"
    /\ upd.f.video_id = NULL
    /\ Len(jobs) = 2
    /\ upd.id = 2
    /\ jobs[2].error_text = "e2"
    /\ jobs[2].video_id = "v1"
    /\ jobs[2].finished_at = LaterTime
    /\ jobs[2].status = "failed"

PastMetadata == rt.current_stage \in {"download", "transcribe", "index"}

\* C24: once a job's metadata stage has returned a content id, the videos
\* row of that id exists: it is there in every state in which the job is in
\* a later stage, in particular whenever a download or transcribe process
\* exists, and no step removes a videos row, whatever the later stages do.
\* When the metadata carries no id the step that finds this writes no videos
\* row and raises, and a download process never exists for a job without a
\* content id.
C24_RecordBeforeDownload ==
    /\ [](PastMetadata
            => rt.current_video_id # NULL /\ rt.current_video_id \in videos)
    /\ [](proc.id.stage \in {"download", "transcribe"}
            => /\ rt.current_video_id # NULL
               /\ VidOf(jobs[proc.id.job].url) \in videos)
    /\ [](svc.pc = "transcribe" => VidOf(jobs[svc.job].url) \in videos)
    /\ [][videos \subseteq videos']_vars
    /\ [][(th'.pc = "handler" /\ th.pc # "handler"
            /\ th'.exc = "no video id")
           => /\ videos' = videos
              /\ rt'.current_stage = "metadata"
              /\ proc'.state = "none"]_vars
    /\ [][(svc'.pc = "handler" /\ svc.pc # "handler"
            /\ svc'.exc = "no video id")
           => videos' = videos]_vars

\* A job has failed after its metadata stage and its content record is
\* stored, and another has failed for want of a content id
C24_Witness ==
    \E j, k \in JobIds(jobs) :
        /\ jobs[j].status = "failed"
        /\ jobs[j].error_text = "no audio"
        /\ VidOf(jobs[j].url) \in videos
        /\ jobs[k].status = "failed"
        /\ jobs[k].error_text = "no video id"
        /\ VidOf(jobs[k].url) \notin videos

\* C27: kill_active on a worker without a current job returns False from its
\* locked block: it never goes on to proc.kill() and "return True", and a
\* step taken from there by anything but the worker thread, toggle_pause
\* or stop leaves the kill flag, the delete flag, the status, the attached
\* process and the process itself as they were; so the job the worker
\* claims next starts from flags no such call has touched.
C27_KillWithoutJobIsNoOp ==
    [][(op.pc = "idle" /\ rt.current_job_id = NoJob /\ th' = th
        /\ op'.pc \in {"idle", "kill"})
       => /\ op' = op
          /\ rt'.kill_requested = rt.kill_requested
          /\ rt'.delete_after_kill = rt.delete_after_kill
          /\ rt'.status = rt.status
          /\ rt'.current_proc = rt.current_proc
          /\ proc' = proc]_vars

\* kill_active can be called while the worker has claimed a job that is not
\* its current job yet: the call finds no job and returns False
C27_Witness ==
    /\ op.pc = "idle"
    /\ rt.current_job_id = NoJob
    /\ th.pc = "reset"
    /\ ~rt.kill_requested
    /\ ~rt.delete_after_kill
    /\ ENABLED KillActive(TRUE)

----------------------------------------------------------------------------
(* SpecNotify: the system of Spec with a webhook configured, each delivery *)
(* succeeding or failing                                                   *)

\* The queues of one job and of two jobs of different contents
NotifyInit ==
    /\ QueueInit
    /\ \A i, j \in DOMAIN jobs : jobs[i].url = jobs[j].url => i = j
    /\ notes = [NoNotes EXCEPT !.webhook = TRUE]
    /\ probe = NoProbe
    /\ cmd = NoCmd
    /\ sv = NoRuns
    /\ Still

SpecNotify == NotifyInit /\ [][Next]_vars

\* A worker has finished with job j: its status is done or failed and no
\* worker holds it any more
FinishedJob(j) ==
    /\ jobs[j].status \in {"done", "failed"}
    /\ th.job # j
    /\ svc.job # j

\* C26: at most one event is ever emitted for a job, and exactly one once a
\* worker has finished with it; the event is the job's stored status, done
\* or failed, whether its delivery succeeded or failed. The step that
\* emits it leaves every other job's row alone and takes the worker on to
\* the end of its loop body; the claim loop ends at its stop test only.
C26_OneTerminalNotification ==
    /\ [](\A j \in JobIds(jobs) :
            /\ Len(notes.sent[j]) <= 1
            /\ FinishedJob(j) => Len(notes.sent[j]) = 1
            /\ \A i \in DOMAIN notes.sent[j] :
                  /\ notes.sent[j][i].event = jobs[j].status
                  /\ notes.sent[j][i].event \in {"done", "failed"})
    /\ [][\A j \in JobIds(jobs) :
            notes'.sent[j] # notes.sent[j]
            => /\ \A k \in JobIds(jobs) \ {j} : jobs'[k] = jobs[k]
               /\ th' # th => th'.pc = "finally"
               /\ svc' # svc => svc'.pc = "idle"]_vars
    /\ [][(th'.pc = "exit" /\ th.pc # "exit")
           => (th.pc = "stopcheck" /\ rt.stop)]_vars

\* Two jobs are finished, one done and one failed, and the delivery of both
\* events failed; the TUI worker is back in its loop
C26_Witness ==
    \E j, k \in JobIds(jobs) :
        /\ FinishedJob(j) /\ FinishedJob(k)
        /\ notes.sent[j] = <<[event |-> "done", delivery |-> "failed"]>>
        /\ notes.sent[k] = <<[event |-> "failed", delivery |-> "failed"]>>
        /\ th.pc = "claim"

----------------------------------------------------------------------------
(* SpecStoreErrors: the system of Spec where a store call of a worker may  *)
(* raise sqlite3.Error (database is locked, disk I/O error)                *)

STORE_ERROR == "database is locked"

\* reserve_next_job() raises in _loop: the call is outside the try block,
\* so the exception leaves _loop and the thread ends
LoopClaimRaises ==
    /\ th.pc = "claim"
    /\ th' = [th EXCEPT !.pc = "died", !.exc = STORE_ERROR]
    /\ UNCHANGED <<jobs, clock, rt, proc, op, svc, files, videos, hist, rest>>

\* update_job_status("done") raises inside _process_job: the exception is
\* caught by _loop's except clause like any other
IndexUpdateRaises ==
    /\ th.pc = "index"
    /\ Raise(STORE_ERROR, TRUE)
    /\ segLast' = SegmentsReplaced(rt.current_video_id)
    /\ UNCHANGED <<jobs, clock, rt, proc, op, svc, files, videos, rest1, notes>>

\* update_job_status("failed") raises inside _loop's except clause, after
\* _consume_kill_requested: the finally clause runs, the exception leaves
\* _loop and the thread ends; the row keeps its status
ExceptHandlerRaises ==
    /\ th.pc = "handler"
    /\ rt' = [rt EXCEPT !.kill_requested = FALSE,
                        !.current_job_id = NoJob,
                        !.current_url = NULL,
                        !.current_stage = NULL,
                        !.current_video_id = NULL,
                        !.local_video_path = NULL,
                        !.transcript_json_path = NULL,
                        !.status = IF @ # "paused" THEN "idle" ELSE @]
    /\ th' = [th EXCEPT !.pc = "died", !.exc = STORE_ERROR]
    /\ hist' = NoHistory
    /\ UNCHANGED <<jobs, clock, proc, op, svc, files, videos, rest>>

\* reserve_next_job() raises in _worker_loop, outside its try block: the
\* worker's future ends with the exception
SvcClaimRaises ==
    /\ svc.pc = "idle"
    /\ svc' = [svc EXCEPT !.pc = "died", !.exc = STORE_ERROR]
    /\ UNCHANGED <<jobs, clock, rt, th, proc, op, files, videos, hist, rest>>

\* update_job_status("failed") raises inside _worker_loop's except clause
SvcExceptRaises ==
    /\ svc.pc = "handler"
    /\ svc' = [svc EXCEPT !.pc = "died", !.exc = STORE_ERROR]
    /\ UNCHANGED <<jobs, clock, rt, th, proc, op, files, videos, hist, rest>>

StoreErrorsNext ==
    \/ Next
    \/ LoopClaimRaises
    \/ IndexUpdateRaises
    \/ ExceptHandlerRaises
    \/ SvcClaimRaises
    \/ SvcExceptRaises

SpecStoreErrors == Init /\ [][StoreErrorsNext]_vars

\* C23: a store error raised by reserve_next_job or by update_job_status
\* inside a worker ends that attempt only: neither the TUI worker's _loop
\* nor the service worker's _worker_loop is ever ended by it.
C23_StoreErrorEndsAttemptOnly ==
    /\ th.pc # "died"
    /\ svc.pc # "died"

----------------------------------------------------------------------------
(* SpecProgress: process_job_id_with_progress on one queued job, without   *)
(* and with a progress callback, for every failure of the pipeline and     *)
(* every stage the callback may raise at                                   *)

ProgressInit ==
    /\ StoreIdle /\ MergeIdle /\ RtInit
    /\ notes = NoNotes
    /\ probe = NoProbe
    /\ cmd = NoCmd
    /\ Still
    /\ sv \in {[plan |-> p, cb |-> c, run |-> [r \in Runs |-> RunStart]] :
                 p \in Plans, c \in CallbackRaisesAt}

PRest == <<storeVars, callerVars, storeHist, mergeVars, rtVars, segVars, probe, cmd, moreVars, notes>>

\* "if progress_cb: progress_cb(stage, ...)" raises
CbRaises(r, stage) == r = "with" /\ sv.cb = stage

\* An exception inside _process_job reaches the except clause of
\* process_job_id_with_progress
ToHandler(x, msg) == [x EXCEPT !.pc = "handler", !.exc = msg]

\* job = self.db.reserve_job_by_id(job_id)
PClaim(r) ==
    /\ sv.run[r].pc = "claim"
    /\ sv' = [sv EXCEPT !.run[r].pc = "metadata",
                        !.run[r].tbl = MarkDownloading(@, 1, clock)]
    /\ UNCHANGED PRest

\* _process_job from progress_cb("metadata_start") to upsert_video
PMetadata(r) ==
    /\ sv.run[r].pc = "metadata"
    /\ LET x == sv.run[r]
       IN  sv' = [sv EXCEPT !.run[r] =
                IF CbRaises(r, "metadata_start")
                THEN ToHandler(x, CALLBACK_ERROR)
                ELSE IF sv.plan = "metadata"
                THEN ToHandler(x, "command failed (1)")
                ELSE IF sv.plan = "noid" THEN ToHandler(x, "no video id")
                ELSE IF CbRaises(r, "metadata_done")
                THEN ToHandler(x, CALLBACK_ERROR)
                ELSE [x EXCEPT !.pc = "download", !.video = TRUE]]
    /\ UNCHANGED PRest

\* From progress_cb("download_start") to update_job_status("transcribing")
PDownload(r) ==
    /\ sv.run[r].pc = "download"
    /\ LET x == sv.run[r]
       IN  sv' = [sv EXCEPT !.run[r] =
                IF CbRaises(r, "download_start")
                THEN ToHandler(x, CALLBACK_ERROR)
                ELSE IF sv.plan = "download"
                THEN ToHandler(x, "command failed (1)")
                ELSE IF CbRaises(r, "download_done")
                THEN ToHandler(x, CALLBACK_ERROR)
                ELSE [x EXCEPT
                        !.pc = "transcribe",
                        !.tbl = UpdateJobStatus(@, 1, "transcribing",
                                   [NoFields EXCEPT
                                      !.video_id = "v1",
                                      !.local_video_path = "v1"], clock)]]
    /\ UNCHANGED PRest

\* From progress_cb("transcribe_start") to progress_cb("index_start")
PTranscribe(r) ==
    /\ sv.run[r].pc = "transcribe"
    /\ LET x == sv.run[r]
       IN  sv' = [sv EXCEPT !.run[r] =
                IF CbRaises(r, "transcribe_start")
                THEN ToHandler(x, CALLBACK_ERROR)
                ELSE IF sv.plan = "transcribe"
                THEN ToHandler(x, "no transcript")
                ELSE IF CbRaises(r, "transcribe_done")
                        \/ CbRaises(r, "index_start")
                THEN ToHandler(x, CALLBACK_ERROR)
                ELSE [x EXCEPT !.pc = "index"]]
    /\ UNCHANGED PRest

\* load_whisper_segments, replace_transcript_segments,
\* progress_cb("index_done"), update_job_status("done")
PIndex(r) ==
    /\ sv.run[r].pc = "index"
    /\ LET x == sv.run[r]
       IN  sv' = [sv EXCEPT !.run[r] =
                IF sv.plan = "index" THEN ToHandler(x, "bad segments")
                ELSE IF CbRaises(r, "index_done")
                THEN ToHandler([x EXCEPT !.stored = TRUE], CALLBACK_ERROR)
                ELSE [x EXCEPT
                        !.pc = "done",
                        !.stored = TRUE,
                        !.tbl = UpdateJobStatus(@, 1, "done",
                                   [NoFields EXCEPT
                                      !.video_id = "v1",
                                      !.local_video_path = "v1",
                                      !.transcript_json_path = "v1"],
                                   clock)]]
    /\ UNCHANGED PRest

\* progress_cb("done"), then _notify("done")
PDone(r) ==
    /\ sv.run[r].pc = "done"
    /\ LET x == sv.run[r]
       IN  sv' = [sv EXCEPT !.run[r] =
                IF CbRaises(r, "done") THEN ToHandler(x, CALLBACK_ERROR)
                ELSE [x EXCEPT !.pc = "over",
                               !.events = Append(@, "done")]]
    /\ UNCHANGED PRest

\* The except clause: update_job_status("failed", error_text=str(exc)),
\* _notify("failed"), and progress_cb("failed"), whose exception leaves
\* process_job_id_with_progress
PHandler(r) ==
    /\ sv.run[r].pc = "handler"
    /\ sv' = [sv EXCEPT
                !.run[r].pc = "over",
                !.run[r].tbl = UpdateJobStatus(@, 1, "failed",
                                  [NoFields EXCEPT
                                     !.error_text = sv.run[r].exc], clock),
                !.run[r].events = Append(@, "failed"),
                !.run[r].escaped = CbRaises(r, "failed")]
    /\ UNCHANGED PRest

ProgressNext ==
    \E r \in Runs :
        \/ PClaim(r)
        \/ PMetadata(r)
        \/ PDownload(r)
        \/ PTranscribe(r)
        \/ PIndex(r)
        \/ PDone(r)
        \/ PHandler(r)

SpecProgress == ProgressInit /\ [][ProgressNext]_vars

\* C25: the job processed with a progress callback, whatever the callback
\* does, ends as the job processed without one: the same row (status,
\* error_text, video_id, paths), the same content record and the same
\* segments.
C25_CallbackChangesNothing ==
    (sv.run["without"].pc = "over" /\ sv.run["with"].pc = "over")
    => /\ sv.run["with"].tbl = sv.run["without"].tbl
       /\ sv.run["with"].video = sv.run["without"].video
       /\ sv.run["with"].stored = sv.run["without"].stored

----------------------------------------------------------------------------
(* SpecStop: one WorkerRuntime with its operator and one queued job, under *)
(* the scheduling the code can count on: the worker thread runs whenever   *)
(* it can, an operator call that has begun returns, and a process that is  *)
(* running (not suspended) ends                                            *)

StopInit ==
    /\ Init
    /\ Len(jobs) = 1

\* The steps of WorkerRuntime._loop's thread
ThreadStep ==
    \/ ShouldStop
    \/ IsPausedWithoutProcess
    \/ LoopClaim
    \/ ResetForJob
    \/ RunCmdSpawn
    \/ RegisterProcess
    \/ RunCmdPoll
    \/ RunCmdRaises
    \/ MetadataReturn
    \/ DownloadReturn
    \/ TranscribeReturn
    \/ IndexStage
    \/ ExceptHandler
    \/ MaybeCleanupPartial
    \/ RecordFailed
    \/ Finally

\* The second half of toggle_pause, kill_active and stop
OperatorReturns ==
    \/ TogglePauseSignal
    \/ KillActiveSignal
    \/ StopSignal

\* The operator begins a call
OperatorCalls ==
    \/ TogglePause
    \/ \E delete_files \in BOOLEAN : KillActive(delete_files)
    \/ Stop

ProcessEnds == \E code \in {"exit0", "exit1"} : ProcExit(code)

StopNext ==
    \/ ThreadStep
    \/ OperatorCalls
    \/ OperatorReturns
    \/ ProcessEnds
    \/ ProcWrite

SpecStop ==
    /\ StopInit
    /\ [][StopNext]_vars
    /\ WF_vars(ThreadStep)
    /\ WF_vars(OperatorReturns)
    /\ WF_vars(ProcessEnds)

\* C28: once stop() has set the stop flag, the claim loop exits: the thread
\* reaches the return of _loop, whatever the interleaving with the loop and
\* whether or not the worker is paused.
C28_StopEndsLoop == rt.stop ~> th.pc = "exit"

----------------------------------------------------------------------------
(* SpecSegments: writers running replace_transcript_segments, statement by *)
(* statement, each on its own connection                                   *)

SegInit == StoreIdle /\ MergeIdle /\ RtInit /\ Quiet

\* The committed tables, as a connection that starts a transaction sees them
Committed == [segs |-> segs, fts |-> fts, seq |-> segSeq]

\* DB.upsert_video: the videos row of a content id
UpsertVideo(v) ==
    /\ dbLock = 0
    /\ v \notin videos
    /\ videos' = videos \cup {v}
    /\ UNCHANGED <<rt, th, proc, op, svc, files, hist>>
    /\ UNCHANGED <<storeVars, callerVars, storeHist, mergeVars, segVars, callVars, notes>>

\* replace_transcript_segments is called: connect() opens a connection, and
\* before the DELETE sqlite3 opens the transaction and takes the write lock;
\* the rows go from the transaction's tables only
SegDelete(w, vid, list) ==
    /\ sw[w].pc = "idle"
    /\ dbLock = 0
    /\ segSeq + Cardinality(KeptIndexes(list)) <= MaxRowId
    /\ dbLock' = w
    /\ sw' = [sw EXCEPT ![w] = [pc |-> "deleted", vid |-> vid, list |-> list,
                                t |-> DeleteFor(Committed, vid)]]
    /\ UNCHANGED <<segs, fts, segSeq, segLast>>
    /\ UNCHANGED <<jobs, clock, callerVars, storeHist, mergeVars, rtVars>>
    /\ UNCHANGED <<callVars, notes>>

\* The DELETE while another connection holds the write lock past the busy
\* timeout: sqlite3.OperationalError leaves the call, the connection is
\* closed and nothing was written
SegBusy(w) ==
    /\ sw[w].pc = "idle"
    /\ dbLock \notin {0, w}
    /\ UNCHANGED vars

AfterFailureKeepsDelete(committed, local) == local

\* connect()'s finally closes the connection without commit: the
\* transaction is rolled back
AfterFailure(committed, local) == committed

\* The list comprehension and executemany; an exception leaves the with
\* block through connect()'s finally
SegInsert(w) ==
    /\ sw[w].pc = "deleted"
    /\ IF RowsRaise(sw[w].list)
          \/ ForeignKeyFails(sw[w].vid, sw[w].list, videos)
       THEN LET c == AfterFailure(Committed, sw[w].t)
            IN  /\ segs' = c.segs
                /\ fts' = c.fts
                /\ segSeq' = c.seq
                /\ dbLock' = 0
                /\ sw' = [sw EXCEPT ![w] = WriterIdle]
                /\ segLast' = [segLast EXCEPT ![sw[w].vid].failed = TRUE]
       ELSE /\ sw' = [sw EXCEPT ![w].pc = "inserted",
                                ![w].t = InsertFrom(sw[w].t, sw[w].vid,
                                                    sw[w].list, 1)]
            /\ UNCHANGED <<dbLock, segs, fts, segSeq, segLast>>
    /\ UNCHANGED <<jobs, clock, callerVars, storeHist, mergeVars, rtVars>>
    /\ UNCHANGED <<callVars, notes>>

\* conn.commit() at the end of connect()
SegCommit(w) ==
    /\ sw[w].pc = "inserted"
    /\ segs' = sw[w].t.segs
    /\ fts' = sw[w].t.fts
    /\ segSeq' = sw[w].t.seq
    /\ dbLock' = 0
    /\ segLast' =
          [segLast EXCEPT ![sw[w].vid] =
              [called |-> TRUE, list |-> sw[w].list, failed |-> FALSE]]
    /\ sw' = [sw EXCEPT ![w] = WriterIdle]
    /\ UNCHANGED <<jobs, clock, callerVars, storeHist, mergeVars, rtVars>>
    /\ UNCHANGED <<callVars, notes>>

SegNext ==
    \/ \E v \in Vids : UpsertVideo(v)
    \/ \E w \in Writers, v \in Vids, list \in SegmentLists :
          SegDelete(w, v, list)
    \/ \E w \in Writers : SegBusy(w)
    \/ \E w \in Writers : SegInsert(w)
    \/ \E w \in Writers : SegCommit(w)

SpecSegments == SegInit /\ [][SegNext]_vars

\* No two stored rows share (video_id, segment_index)
UniqueIndexes(table) ==
    \A r1, r2 \in table :
        (r1.video_id = r2.video_id /\ r1.segment_index = r2.segment_index)
            => r1 = r2

\* C21: a replace_transcript_segments call that commits leaves, for its
\* content id, exactly the rows of its list (blank texts dropped), so a
\* second call with the same list leaves the same (segment_index, start_ms,
\* end_ms, text) rows as the first: no duplicate (video_id, segment_index),
\* no row of an earlier list, other content ids untouched; and the
\* full-text index holds exactly one entry per stored row, with its text.
C21_ReplaceIdempotent ==
    [][\A w \in Writers :
          (sw[w].pc = "inserted" /\ sw'[w].pc = "idle")
          => /\ StoredFor(segs', sw[w].vid) = Rows(sw[w].vid, sw[w].list)
             /\ (segLast[sw[w].vid].called
                 /\ segLast[sw[w].vid].list = sw[w].list)
                   => StoredFor(segs', sw[w].vid) = StoredFor(segs, sw[w].vid)
             /\ UniqueIndexes(segs')
             /\ Cardinality(segs') =
                   Cardinality({Columns(r) : r \in segs'})
             /\ \A v \in Vids \ {sw[w].vid} :
                   {r \in segs' : r.video_id = v}
                      = {r \in segs : r.video_id = v}
             /\ fts' = {[rowid |-> r.id, text |-> r.text] : r \in segs'}]_vars

\* The same list of two kept segments has been committed twice in a row
C21_Witness ==
    \E v \in Vids :
        /\ Cardinality(StoredFor(segs, v)) = 2
        /\ {r.id : r \in segs} = {3, 4}
        /\ segSeq = 4
        /\ \A w \in Writers : sw[w].pc = "idle"

\* C22: the committed rows of a content id, which is what every other
\* connection reads, are at every state the complete filtered list of the
\* last call that committed for it, or empty before the first: a call that
\* fails after its DELETE leaves the rows stored before, and two concurrent
\* calls leave the rows of the one that committed last, never a mixture.
C22_NeverPartial ==
    \A v \in Vids :
        StoredFor(segs, v) =
            IF segLast[v].called THEN Rows(v, segLast[v].list) ELSE {}

\* A call failed after its DELETE while rows of an earlier call are stored
C22_Witness ==
    \E v \in Vids :
        /\ segLast[v].called
        /\ segLast[v].failed
        /\ StoredFor(segs, v) # {}

\* The texts a stored row can hold: stripped and not empty
StrippedTexts == {"a", "b", "c"}

\* C32: the rows stored for a content id are those of the last call that
\* returned for it: one row for each segment of its list whose stripped text
\* is not empty, holding that stripped text and the segment's position in
\* the list counted from 0 (a dropped segment leaves its position unused),
\* and no other row; no stored row has an empty or unstripped text, and
\* every stored row's content id has a content record.
C32_StoredRowsAreKeptInput ==
    /\ \A v \in Vids :
          LET list == IF segLast[v].called THEN segLast[v].list ELSE <<>>
              mine == {r \in segs : r.video_id = v}
          IN  /\ \A i \in 1..Len(list) :
                    Strip(list[i].text) # ""
                    => \E r \in mine :
                          /\ r.segment_index = i - 1
                          /\ r.text = Strip(list[i].text)
                          /\ \A q \in mine :
                                q.segment_index = i - 1 => q = r
              /\ \A r \in mine :
                    /\ r.segment_index + 1 \in 1..Len(list)
                    /\ r.text = Strip(list[r.segment_index + 1].text)
    /\ \A r \in segs : r.text \in StrippedTexts /\ r.video_id \in videos

\* A call returned for a list whose first segment is blank and whose second
\* is not: one row is stored, at segment_index 1
C32_Witness ==
    \E v \in Vids :
        /\ segLast[v].called
        /\ Len(segLast[v].list) = 2
        /\ Strip(segLast[v].list[1].text) = ""
        /\ {r.segment_index : r \in {x \in segs : x.video_id = v}} = {1}
        /\ \A w \in Writers : sw[w].pc = "idle"

----------------------------------------------------------------------------
(* SpecProbe: the two stream tests applied to one ffprobe invocation *)

ProbeInit ==
    /\ StoreIdle /\ MergeIdle /\ RtInit
    /\ probe \in {[o |-> x, audio |-> NULL, video |-> NULL] :
                    x \in ProbeOutcomes}
    /\ cmd = NoCmd
    /\ sv = NoRuns
    /\ notes = NoNotes
    /\ Still

\* _media_has_audio_stream(path)
HasAudio ==
    /\ probe.o.start # "none"
    /\ probe.audio = NULL
    /\ probe' = [probe EXCEPT !.audio = MediaHasStream(probe.o, "audio")]
    /\ UNCHANGED <<storeVars, callerVars, storeHist, mergeVars, rtVars>>
    /\ UNCHANGED <<segVars, cmd, sv, moreVars, notes>>

\* _media_has_video_stream(path)
HasVideo ==
    /\ probe.o.start # "none"
    /\ probe.video = NULL
    /\ probe' = [probe EXCEPT !.video = MediaHasStream(probe.o, "video")]
    /\ UNCHANGED <<storeVars, callerVars, storeHist, mergeVars, rtVars>>
    /\ UNCHANGED <<segVars, cmd, sv, moreVars, notes>>

ProbeNext == HasAudio \/ HasVideo

SpecProbe == ProbeInit /\ [][ProbeNext]_vars

\* ffprobe ran, exited zero and printed an object with a streams list
ParsedStreams(o) ==
    /\ o.start = "ran"
    /\ o.returncode = 0
    /\ o.json = "object"
    /\ o.streams = "list"

\* C30: neither stream test raises, whatever the probe invocation gave; each
\* returns unknown when ffprobe could not be started, exited nonzero, or
\* printed something that is not a JSON object with a streams list, and
\* true or false only when such an object was parsed.
C30_ProbesNeverRaise ==
    \A r \in {probe.audio, probe.video} :
        r # NULL
        => /\ r # RAISED
           /\ ~ParsedStreams(probe.o) => r = "unknown"
           /\ r \in {"yes", "no"} => ParsedStreams(probe.o)

----------------------------------------------------------------------------
(* SpecRunCmd: one call of run_cmd, its process, and the caller's          *)
(* cancellation predicate turning true at any moment                       *)

\* After subprocess.Popen: with or without on_process and should_terminate
RunCmdInit ==
    /\ StoreIdle /\ MergeIdle /\ RtInit
    /\ probe = NoProbe
    /\ sv = NoRuns
    /\ notes = NoNotes
    /\ Still
    /\ cmd \in {[NoCmd EXCEPT !.pc = "spawned", !.state = "running",
                               !.on_process = cb, !.should_terminate = st] :
                   cb \in BOOLEAN, st \in BOOLEAN}

CmdRest == <<storeVars, callerVars, storeHist, mergeVars, rtVars, segVars, probe, sv, moreVars, notes>>

\* "if on_process: on_process(proc)", then the drain threads are started
CmdOnProcess ==
    /\ cmd.pc = "spawned"
    /\ cmd' = [cmd EXCEPT !.pc = "poll",
                          !.on_calls = IF cmd.on_process THEN @ + 1 ELSE @]
    /\ UNCHANGED CmdRest

\* The exit code poll() finds for a process that has ended
CodeOf(state) ==
    IF state = "exit0" THEN "0" ELSE IF state = "exit1" THEN "1" ELSE "-9"

\* One turn of "while proc.poll() is None": the loop ends when the process
\* has ended; otherwise should_terminate() is called, and a true answer
\* leads to proc.kill()
CmdPoll ==
    /\ cmd.pc = "poll"
    /\ IF cmd.state # "running"
       THEN cmd' = [cmd EXCEPT !.pc = "join",
                               !.returncode = CodeOf(cmd.state)]
       ELSE IF cmd.should_terminate /\ cmd.cancel
       THEN cmd' = [cmd EXCEPT !.pc = "kill", !.polled = TRUE,
                               !.seenTrue = TRUE]
       ELSE cmd' = [cmd EXCEPT !.polled = cmd.should_terminate \/ @]
    /\ UNCHANGED CmdRest

\* "proc.kill(); break". A running process gets SIGKILL and returncode
\* stays None. For a process that has ended since the poll, Popen.kill
\* sends nothing: from Python 3.9 on send_signal polls first, which stores
\* the exit code (reaped), before that returncode stays None.
CmdKill ==
    /\ cmd.pc = "kill"
    /\ IF cmd.state = "running"
       THEN cmd' = [cmd EXCEPT !.pc = "join", !.state = "killed"]
       ELSE \E reaped \in BOOLEAN :
               cmd' = [cmd EXCEPT !.pc = "join",
                                  !.returncode = IF reaped
                                                 THEN CodeOf(cmd.state)
                                                 ELSE @]
    /\ UNCHANGED CmdRest

\* The drain threads are joined (the pipes are at end of file once the
\* process is dead), and the result is built from proc.returncode
CmdJoin ==
    /\ cmd.pc = "join"
    /\ cmd' = [cmd EXCEPT !.pc = "over",
                          !.result = CompletedOrRaised(cmd.returncode,
                                                       cmd.wrote)]
    /\ UNCHANGED CmdRest

\* The process writes a chunk to its stdout
CmdProcWrite ==
    /\ cmd.state = "running"
    /\ cmd.wrote < MaxChunks
    /\ cmd' = [cmd EXCEPT !.wrote = @ + 1]
    /\ UNCHANGED CmdRest

\* The process ends of its own accord
CmdProcExit(code) ==
    /\ cmd.state = "running"
    /\ cmd' = [cmd EXCEPT !.state = code]
    /\ UNCHANGED CmdRest

\* Whoever on_process handed the process to kills it (kill_active, stop)
CmdKilledByHolder ==
    /\ cmd.state = "running"
    /\ cmd.on_calls > 0
    /\ cmd' = [cmd EXCEPT !.state = "killed9"]
    /\ UNCHANGED CmdRest

\* The caller's predicate turns true (it is not asked here)
CmdCancel ==
    /\ cmd.pc \in {"spawned", "poll", "kill"}
    /\ cmd.should_terminate
    /\ ~cmd.cancel
    /\ cmd' = [cmd EXCEPT !.cancel = TRUE,
                          !.whileRunning = cmd.state = "running"]
    /\ UNCHANGED CmdRest

RunCmdNext ==
    \/ CmdOnProcess
    \/ CmdPoll
    \/ CmdKill
    \/ CmdJoin
    \/ CmdProcWrite
    \/ \E code \in {"exit0", "exit1"} : CmdProcExit(code)
    \/ CmdKilledByHolder
    \/ CmdCancel

SpecRunCmd == RunCmdInit /\ [][RunCmdNext]_vars

\* The process ended by a SIGKILL, run_cmd's or the holder's
Killed == cmd.state \in {"killed", "killed9"}

\* The claim's first and last parts: the output is returned for exit code
\* 0, a failure with the exit code and the output is raised for any other,
\* and on_process has been called exactly once when should_terminate is
\* first called (and never more than once)
OutcomeAndCallback ==
    /\ cmd.on_calls <= 1
    /\ (cmd.polled /\ cmd.on_process) => cmd.on_calls = 1
    /\ cmd.pc = "over"
       => /\ cmd.result.stdout = cmd.wrote
          /\ cmd.result.kind = "returned"
             <=> (cmd.state = "exit0" /\ cmd.returncode = "0")
          /\ (cmd.state = "exit1" /\ cmd.returncode # "None")
             => (cmd.result.kind = "raised" /\ cmd.result.code = "1")

\* C29 as stated: the output is returned on exit code 0 and a failure with
\* exit code and output raised otherwise; on_process is called once, before
\* the first call of should_terminate; and whenever the predicate turned
\* true while the process was running, the process has been killed and the
\* call has raised when it is over.
C29_CancelAlwaysRaises ==
    /\ OutcomeAndCallback
    /\ (cmd.pc = "over" /\ cmd.whileRunning)
       => (Killed /\ cmd.result.kind = "raised")

\* C29, amended: as above, but cancellation acts only through the loop's
\* poll: when should_terminate() has answered true the call goes to
\* proc.kill() and ends; it raises whenever the process was killed, and
\* returns only the output of a process that ended on its own with code 0,
\* which can happen after the predicate turned true while it ran. The call
\* is never stuck: once the process has ended or the predicate is true,
\* a step of run_cmd is possible and leads on.
C29_CancelRaisesWhenKilled ==
    /\ OutcomeAndCallback
    /\ (cmd.pc = "over" /\ Killed) => cmd.result.kind = "raised"
    /\ (cmd.pc = "over" /\ cmd.seenTrue /\ cmd.result.kind = "returned")
       => cmd.state = "exit0"
    /\ cmd.seenTrue => cmd.pc \in {"kill", "join", "over"}
    /\ (cmd.pc = "poll" /\ (cmd.state # "running"
                            \/ (cmd.should_terminate /\ cmd.cancel)))
       => ENABLED CmdPoll
    /\ cmd.pc \in {"kill", "join"} => ENABLED (CmdKill \/ CmdJoin)

\* should_terminate() answered true for a running process that had written
\* output: run_cmd killed it and raised with returncode None
C29_Witness ==
    /\ cmd.pc = "over"
    /\ cmd.whileRunning
    /\ cmd.state = "killed"
    /\ cmd.on_calls = 1
    /\ cmd.wrote = MaxChunks
    /\ cmd.result = [kind |-> "raised", code |-> "None", stdout |-> MaxChunks]

----------------------------------------------------------------------------
(* SpecTranscribe: one call of transcribe_video on a media file, over every *)
(* outcome of the ffprobe invocation of its audio test                      *)

TranscribeInit ==
    /\ StoreIdle /\ MergeIdle /\ RtInit /\ SegIdle
    /\ notes = NoNotes
    /\ probe = NoProbe
    /\ cmd = NoCmd
    /\ sv = NoRuns
    /\ dash = NoDash
    /\ srch = NoSearch
    /\ tr \in {[TranscribeStart EXCEPT !.o = x] :
                 x \in ProbeOutcomes}

TrRest ==
    <<storeVars, callerVars, storeHist, mergeVars, rtVars, segVars, probe,
      cmd, sv, dash, srch, notes>>

\* output_dir.mkdir, has_audio = _media_has_audio_stream(video_path), the
\* test "has_audio is False", and run_cmd starting the whisper process. An
\* exception of the audio test leaves transcribe_video as it is.
TrHasAudio ==
    /\ tr.pc = "call"
    /\ LET r == MediaHasStream(tr.o, "audio")
       IN  tr' = IF r = RAISED
                 THEN [tr EXCEPT !.pc = "raised", !.exc = "probe error"]
                 ELSE IF r = "no"
                 THEN [tr EXCEPT !.pc = "raised", !.has_audio = r,
                                 !.exc = NO_AUDIO]
                 ELSE [tr EXCEPT !.pc = "tool", !.has_audio = r,
                                 !.tool = TRUE]
    /\ UNCHANGED TrRest

\* run_cmd returns or raises, then _resolve_whisper_output finds a JSON
\* file or raises
TrTool ==
    /\ tr.pc = "tool"
    /\ \E r \in {"returned", "tool failed", "no output"} :
         tr' = IF r = "returned"
               THEN [tr EXCEPT !.pc = "returned"]
               ELSE [tr EXCEPT !.pc = "raised", !.exc = r]
    /\ UNCHANGED TrRest

TranscribeNext == TrHasAudio \/ TrTool

SpecTranscribe == TranscribeInit /\ [][TranscribeNext]_vars

\* C31: once the audio test is over, transcribe_video has failed without
\* starting the transcription tool exactly when the test returned false;
\* when it returned true or unknown the tool was started.
C31_FailsBeforeToolIffNoAudio ==
    tr.pc \notin {"off", "call"}
    => /\ (tr.pc = "raised" /\ ~tr.tool) <=> tr.has_audio = "no"
       /\ tr.has_audio \in {"yes", "unknown"} => tr.tool

----------------------------------------------------------------------------
(* SpecDashboard: one call of get_dashboard_snapshot on a table of jobs,   *)
(* with the workers' writes falling between its three SELECTs              *)

\* Any table of up to MaxJobs jobs, or none; the call's sample_size
DashInit ==
    /\ jobs \in Tables \cup {<<>>}
    /\ clock = LaterTime
    /\ dbLock = 0
    /\ cpc = [c \in Callers |-> "idle"]
    /\ crow = [c \in Callers |-> NoJob]
    /\ cop = [c \in Callers |-> NoJob]
    /\ upd = UpdIdle
    /\ SegIdle
    /\ claimCount = [j \in 1..MaxJobs |-> 0]
    /\ nextDone = 0
    /\ MergeIdle
    /\ RtInit
    /\ notes = NoNotes
    /\ probe = NoProbe
    /\ cmd = NoCmd
    /\ sv = NoRuns
    /\ tr = NoTranscribe
    /\ srch = NoSearch
    /\ dash \in {[DashStart EXCEPT !.sample_size = n] :
                   n \in 1..MaxJobs}

DashRest ==
    <<dbLock, callerVars, storeHist, mergeVars, rtVars, segVars, probe, cmd,
      sv, tr, srch, notes>>

\* The first SELECT and the dict built from it
DashCounts ==
    /\ dash.pc = "count"
    /\ dash' = [dash EXCEPT !.pc = "active", !.counts = GroupCounts(jobs),
                            !.atCount = jobs]
    /\ UNCHANGED <<jobs, clock, DashRest>>

\* The second SELECT
DashActive ==
    /\ dash.pc = "active"
    /\ \E q \in ActiveOrders(jobs) :
         dash' = [dash EXCEPT !.pc = "done", !.active_rows = q,
                              !.atActive = jobs]
    /\ UNCHANGED <<jobs, clock, DashRest>>

\* The third SELECT, the connection's close, and the dict returned: the
\* active rows are those the second SELECT fetched; avg_duration_sec and
\* median_duration_sec are the mean and the median of durations
DashReturn ==
    /\ dash.pc = "done"
    /\ dash' =
          [dash EXCEPT
              !.pc = "returned",
              !.result_counts = FiveCounts(dash.counts),
              !.active_jobs =
                  [k \in DOMAIN dash.active_rows |->
                      ActiveJob(dash.atActive, dash.active_rows[k], clock)],
              !.durations =
                  Durations(jobs, LastIds(SampledIds(jobs),
                                          dash.sample_size))]
    /\ UNCHANGED <<jobs, clock, DashRest>>

\* Between two SELECTs another connection commits: an enqueue, a claim, or
\* a worker's update_job_status
DashOtherWrites ==
    /\ dash.pc \in {"active", "done"}
    /\ \/ /\ Len(jobs) < MaxJobs
          /\ jobs' = InsertAll(jobs, <<"u1">>, 0, clock)
       \/ \E i \in JobIds(jobs) :
            \/ /\ jobs[i].status = "queued"
               /\ jobs' = MarkDownloading(jobs, i, clock)
            \/ /\ jobs[i].status = "downloading"
               /\ jobs' = UpdateJobStatus(jobs, i, "transcribing",
                             [NoFields EXCEPT !.video_id = "v1",
                                              !.local_video_path = "v1"],
                             clock)
            \/ /\ jobs[i].status = "transcribing"
               /\ jobs' = UpdateJobStatus(jobs, i, "done",
                             [NoFields EXCEPT !.video_id = "v1",
                                              !.local_video_path = "v1",
                                              !.transcript_json_path = "v1"],
                             clock)
            \/ /\ jobs[i].status \in {"downloading", "transcribing"}
               /\ jobs' = UpdateJobStatus(jobs, i, "failed",
                             [NoFields EXCEPT !.error_text = "e1"], clock)
    /\ UNCHANGED <<clock, dash, DashRest>>

DashNext == DashCounts \/ DashActive \/ DashReturn \/ DashOtherWrites

SpecDashboard == DashInit /\ [][DashNext]_vars

\* The ids the returned job list names
ListedIds == {dash.active_jobs[k].id : k \in DOMAIN dash.active_jobs}

\* The returned counts: one for each of the five statuses, each the number
\* of rows of that status when the first SELECT ran, together the number of
\* rows
CountsAreRight ==
    /\ DOMAIN dash.result_counts = Statuses
    /\ \A s \in Statuses :
          dash.result_counts[s] =
              Cardinality({i \in JobIds(dash.atCount) :
                              dash.atCount[i].status = s})
    /\ dash.result_counts["queued"] + dash.result_counts["downloading"]
       + dash.result_counts["transcribing"] + dash.result_counts["done"]
       + dash.result_counts["failed"] = Len(dash.atCount)

\* The steps of the call leave the table as it is
DashModifiesNothing == [][dash' # dash => jobs' = jobs]_vars

\* C33: the snapshot reports one count for each of the five statuses, the
\* counts sum to the number of jobs, its job list holds every job that is
\* not done and not failed and no done or failed job, and the call
\* modifies nothing in the store.
C33_ListsNonTerminalJobs ==
    dash.pc = "returned"
    => /\ CountsAreRight
       /\ ListedIds = {i \in JobIds(dash.atActive) :
                          dash.atActive[i].status \notin {"done", "failed"}}

\* C33, amended: as above, but the job list holds the jobs in downloading
\* or transcribing when the second SELECT ran, each once, with its own url
\* and status, in the order of their start; queued jobs are counted and not
\* listed.
C33_ListsActiveJobs ==
    /\ [](dash.pc = "returned"
          => /\ CountsAreRight
             /\ ListedIds =
                   {i \in JobIds(dash.atActive) :
                       dash.atActive[i].status
                           \in {"downloading", "transcribing"}}
             /\ \A a, b \in DOMAIN dash.active_jobs :
                   /\ a # b => dash.active_jobs[a].id # dash.active_jobs[b].id
                   /\ a < b => dash.active_jobs[a].started_at
                               <= dash.active_jobs[b].started_at
             /\ \A k \in DOMAIN dash.active_jobs :
                   LET e == dash.active_jobs[k]
                       r == dash.atActive[e.id]
                   IN  /\ e.source_url = r.url
                       /\ e.status = r.status
                       /\ e.started_at = r.started_at)
    /\ DashModifiesNothing

\* A snapshot of a table with a queued job and a job in progress: two jobs
\* counted, one listed
C33_Witness ==
    /\ dash.pc = "returned"
    /\ dash.result_counts["queued"] = 1
    /\ dash.result_counts["downloading"] = 1
    /\ Len(dash.active_jobs) = 1
    /\ dash.active_jobs[1].status = "downloading"

----------------------------------------------------------------------------
(* SpecSearch: one call of search_transcript_segments, over every query    *)
(* and stored text on one store, and over every history of ingests on one  *)
(* query and text                                                          *)

\* The paths a job stores, by job id
MediaPath(i) == CASE i = 1 -> "m1" [] i = 2 -> "m2" [] OTHER -> "m3"

TranscriptPath(i) == CASE i = 1 -> "t1" [] i = 2 -> "t2" [] OTHER -> "t3"

\* How far an ingest has come, and of which content
Ingests ==
    [kind : {"transcribing", "done", "failed"}, vid : Vids]
    \cup [kind : {"queued"}, vid : {"v1"}]

\* The row of job i after such an ingest, written as the workers write it
IngestRow(i, g) ==
    LET queued == <<NewJob("u1", 0, 1)>>
        transcribing ==
            UpdateJobStatus(MarkDownloading(queued, 1, 1), 1, "transcribing",
                [NoFields EXCEPT !.video_id = g.vid,
                                 !.local_video_path = MediaPath(i)], 1)
    IN  CASE g.kind = "queued" -> queued[1]
          [] g.kind = "transcribing" -> transcribing[1]
          [] g.kind = "done" ->
                UpdateJobStatus(transcribing, 1, "done",
                    [NoFields EXCEPT
                        !.video_id = g.vid,
                        !.local_video_path = MediaPath(i),
                        !.transcript_json_path = TranscriptPath(i)], 2)[1]
          [] OTHER ->
                UpdateJobStatus(transcribing, 1, "failed",
                    [NoFields EXCEPT !.error_text = "e1"], 2)[1]

IngestTables ==
    {[i \in DOMAIN g |-> IngestRow(i, g[i])] :
        g \in UNION {[1..n -> Ingests] : n \in 0..MaxJobs}}

\* A stored segment
Segment(id, vid, index, ms, text) ==
    [id |-> id, video_id |-> vid, segment_index |-> index, start_ms |-> ms,
     end_ms |-> ms + 1500, text |-> text]

\* One segment; two segments of one content; one segment each of two
SegmentTables(text) ==
    {{Segment(1, "v1", 0, 0, text)},
     {Segment(1, "v1", 0, 0, text), Segment(2, "v1", 1, 1500, text)},
     {Segment(1, "v1", 0, 0, text), Segment(2, "v2", 0, 0, text)}}

SearchInit ==
    /\ clock = LaterTime
    /\ dbLock = 0
    /\ cpc = [c \in Callers |-> "idle"]
    /\ crow = [c \in Callers |-> NoJob]
    /\ cop = [c \in Callers |-> NoJob]
    /\ upd = UpdIdle
    /\ claimCount = [j \in 1..MaxJobs |-> 0]
    /\ nextDone = 0
    /\ MergeIdle
    /\ rt = RtInitFields
    /\ th = [pc |-> "stopcheck", job |-> NoJob, exc |-> NULL]
    /\ proc = Reaped
    /\ op = [pc |-> "idle", proc |-> NoProc, paused_now |-> FALSE]
    /\ svc = [pc |-> "idle", job |-> NoJob, exc |-> NULL]
    /\ files = [v \in Vids |-> {}]
    /\ hist = NoHistory
    /\ segSeq = 2
    /\ sw = [w \in Writers |-> WriterIdle]
    /\ segLast = [v \in Vids |-> NoCall]
    /\ notes = NoNotes
    /\ probe = NoProbe
    /\ cmd = NoCmd
    /\ sv = NoRuns
    /\ tr = NoTranscribe
    /\ dash = NoDash
    /\ videos = Vids
    /\ \/ /\ jobs = <<IngestRow(1, [kind |-> "done", vid |-> "v1"])>>
          /\ \E text \in Texts : segs = {Segment(1, "v1", 0, 0, text)}
          /\ srch \in {[SearchStart EXCEPT !.query_text = q,
                                        !.limit = 2] : q \in Queries}
       \/ /\ jobs \in IngestTables
          /\ segs \in SegmentTables(<<"a">>)
          /\ srch \in {[SearchStart EXCEPT
                                        !.query_text = <<"A">>,
                                        !.limit = n] : n \in {1, 2}}
    /\ fts = {[rowid |-> r.id, text |-> r.text] : r \in segs}

\* search_transcript_segments(query_text, limit=limit)
Search ==
    /\ srch.pc = "call"
    /\ LET needle == Needle(srch.query_text)
       IN  IF needle = <<>>
           THEN srch' = [srch EXCEPT !.pc = "returned"]
           ELSE \E r \in SearchResults(jobs, segs, videos, needle,
                                       srch.limit) :
                  srch' = [srch EXCEPT !.pc = "returned", !.rows = r]
    /\ UNCHANGED <<storeVars, callerVars, storeHist, mergeVars, rtVars>>
    /\ UNCHANGED <<segVars, probe, cmd, sv, tr, dash, notes>>

SearchNext == Search

SpecSearch == SearchInit /\ [][SearchNext]_vars

\* text contains needle as a substring, case apart
Contains(text, needle) ==
    \E i \in 0..(Len(text) - Len(needle)) :
        LowerAll(SubSeq(text, i + 1, i + Len(needle))) = LowerAll(needle)

\* The row returned for a stored segment, if one is
ReturnedFor(seg) ==
    {k \in DOMAIN srch.rows : /\ srch.rows[k].video_id = seg.video_id
                              /\ srch.rows[k].start_ms = seg.start_ms}

\* Each returned row carries the paths of the done job with the greatest id
\* for its content id, and no paths when the content has no done job
PathsOfLatestDone ==
    \A k \in DOMAIN srch.rows :
        LET row == srch.rows[k]
            done == {i \in JobIds(jobs) : /\ jobs[i].status = "done"
                                          /\ jobs[i].video_id = row.video_id}
        IN  IF done = {}
            THEN /\ row.local_video_path = NULL
                 /\ row.transcript_json_path = NULL
            ELSE \E i \in done :
                    /\ \A k2 \in done : k2 <= i
                    /\ row.local_video_path = MediaPath(i)
                    /\ row.transcript_json_path = TranscriptPath(i)

\* C34: a search returns, for each stored segment whose text contains the
\* query as a substring, case apart, one row with the media and transcript
\* paths of the done job with the greatest id for the segment's content id
\* (empty paths when there is none, never those of a failed or unfinished
\* job), and returns no row for any other segment. The query is taken
\* without surrounding blanks and is not blank, and no more segments match
\* than the call's limit.
C34_SearchIsSubstringMatch ==
    (/\ srch.pc = "returned"
     /\ Needle(srch.query_text) # <<>>
     /\ Cardinality({seg \in segs :
                        Contains(seg.text, Needle(srch.query_text))})
        <= srch.limit)
    => /\ PathsOfLatestDone
       /\ \A seg \in segs :
             ReturnedFor(seg) # {}
             <=> Contains(seg.text, Needle(srch.query_text))

----------------------------------------------------------------------------
(* Spec: what a job's row holds in each status *)

\* C36: in every state of a run of the workers, a transcribing job has its
\* content id and media path stored; a done job has content id, media path
\* and transcript path stored, a content record exists for its content id,
\* and replace_transcript_segments has returned for that content id; a
\* queued job has none of the three fields and no error text.
C36_FieldsByStatus ==
    \A j \in JobIds(jobs) :
        LET row == jobs[j]
        IN  /\ row.status = "transcribing"
               => row.video_id # NULL /\ row.local_video_path # NULL
            /\ row.status = "done"
               => /\ row.video_id # NULL
                  /\ row.local_video_path # NULL
                  /\ row.transcript_json_path # NULL
                  /\ row.video_id \in videos
                  /\ segLast[row.video_id].called
            /\ row.status = "queued"
               => /\ row.video_id = NULL
                  /\ row.local_video_path = NULL
                  /\ row.transcript_json_path = NULL
                  /\ row.error_text = NULL

\* Of two jobs of different contents the first is done and the second is
\* being transcribed
C36_Witness ==
    /\ Len(jobs) = 2
    /\ jobs[1].status = "done"
    /\ jobs[2].status = "transcribing"
    /\ jobs[1].video_id # jobs[2].video_id

----------------------------------------------------------------------------
(* Spec: kill requests and the job they belong to *)

\* The row of job j gets the error text 'killed by user' in this step
RecordedKilled(j) ==
    jobs'[j].error_text = KILLED_BY_USER /\ jobs[j].error_text # KILLED_BY_USER

\* C38: kill requests are scoped to one job. The except clause reads and
\* clears the kill flag in one step and stores 'killed by user' exactly when
\* the flag was set; both flags are clear when _reset_for_job has run, and
\* the history of kills is empty when a job starts; a row gets the text
\* 'killed by user' only for the worker's current job and only if
\* kill_active or stop() set the flag while that job was current; files are
\* removed only of the current job's content and only if the latest
\* kill_active call made while it was current had delete_files=True.
C38_KillScopedToJob ==
    /\ [](th.pc = "reset" => hist = NoHistory)
    /\ [][(th.pc = "handler" /\ th'.pc # "handler")
          => /\ ~rt'.kill_requested
             /\ jobs'[th.job].error_text = KILLED_BY_USER
                  <=> rt.kill_requested]_vars
    /\ [][(th.pc = "reset" /\ th'.pc # "reset")
          => ~rt'.kill_requested /\ ~rt'.delete_after_kill]_vars
    /\ [][\A j \in JobIds(jobs) :
            RecordedKilled(j)
            => j = rt.current_job_id /\ j = th.job /\ hist.killReq]_vars
    /\ [][Removed
          => /\ hist.lastKill = "delete"
             /\ rt.current_job_id = th.job
             /\ \A v \in Vids \ {VidOf(jobs[th.job].url)} :
                    files'[v] = files[v]]_vars

\* The first job was recorded killed; a later kill_active call, made while
\* the first job was still current, has not returned yet, and the worker has
\* started the second job with both flags clear
C38_Witness ==
    /\ jobs[1].error_text = KILLED_BY_USER
    /\ op.pc = "kill"
    /\ hist.lastKill = NULL
    /\ rt.current_job_id = 2
    /\ ~rt.kill_requested /\ ~rt.delete_after_kill

----------------------------------------------------------------------------
(* Spec: stop() and the claim loop *)

\* C39: once stop() has set the stop flag, no reserve_next_job call of the
\* worker returns a job.
C39_NoClaimAfterStop ==
    [][(th.pc = "claim" /\ th'.pc = "reset") => ~rt.stop]_vars

----------------------------------------------------------------------------
(* Spec: the files of done jobs after a kill with delete_files=True *)

\* The worker has handled a failure of its job after a kill_active call with
\* delete_files=True, the latest of the job
KillDeleteHandled ==
    /\ th.pc \in {"failed", "finally"}
    /\ th.exc # NULL
    /\ hist.lastKill = "delete"

\* C40: after kill_active(delete_files=True) has been handled, the media
\* file and the transcript directory recorded on every job in status done
\* are still on disk, also when the killed job has the url of a done job.
C40_DoneFilesSurviveKill ==
    KillDeleteHandled
    => \A j \in JobIds(jobs) :
         jobs[j].status = "done"
         => {"media", "tdir"} \subseteq files[VidOf(jobs[j].url)]

----------------------------------------------------------------------------
(* Spec: what snapshot() returns *)

\* snapshot(): the fields read in one locked block (worker_id is constant
\* and elapsed_sec a reading of the clock; both are left out)
Snapshot ==
    [status |-> rt.status, job_id |-> rt.current_job_id,
     url |-> rt.current_url, video_id |-> rt.current_video_id,
     stage |-> rt.current_stage, last_error |-> rt.last_error]

\* C37: whenever snapshot() is called, what it returns is consistent: with
\* status downloading, transcribing or failed it has a job id, a url and a
\* stage; with status idle or paused it has none of them; the url is the
\* url of the job whose id it reports, and a job id first appears together
\* with that job's first stage, never with the stage the job before it left.
C37_SnapshotConsistent ==
    /\ [](LET s == Snapshot
          IN  /\ s.status \in {"downloading", "transcribing", "failed"}
                 => s.job_id # NoJob /\ s.url # NULL /\ s.stage # NULL
              /\ s.status \in {"idle", "paused"}
                 => s.job_id = NoJob /\ s.url = NULL /\ s.stage = NULL
              /\ s.status \in {"idle", "paused", "downloading",
                                "transcribing", "failed"}
              /\ s.job_id # NoJob
                 => s.job_id = th.job /\ s.url = jobs[s.job_id].url)
    /\ [][rt'.current_job_id \notin {NoJob, rt.current_job_id}
          => rt'.current_stage = "metadata" /\ rt'.status = "downloading"]_vars

\* The worker has failed its first job and has not yet left the except
\* clause, while the operator has paused it: the snapshot shows failed with
\* job 1, its url and the stage it failed in
C37_Witness ==
    /\ Snapshot.status = "failed"
    /\ Snapshot.job_id = 1
    /\ Snapshot.stage = "download"
    /\ rt.paused
    /\ Len(jobs) = 2

----------------------------------------------------------------------------
(* SpecLive: the WorkerRuntime, its operator pausing, resuming and killing, *)
(* and a service worker, none of them stopped, with the fairness of the    *)
(* threads and of the processes                                            *)

\* The steps of the IngesterService worker
ServiceStep ==
    \/ \E id \in {NoJob} \cup JobIds(jobs) : SvcClaim(id)
    \/ SvcDownload
    \/ SvcTranscribe
    \/ SvcExcept

\* The second half of toggle_pause and kill_active
PauseOrKillReturns == TogglePauseSignal \/ KillActiveSignal

LiveNext ==
    \/ ThreadStep
    \/ TogglePause
    \/ \E delete_files \in BOOLEAN : KillActive(delete_files)
    \/ PauseOrKillReturns
    \/ ProcessEnds
    \/ ProcWrite
    \/ ServiceStep

\* Queues of jobs of different contents
LiveInit ==
    /\ Init
    /\ \A i, j \in DOMAIN jobs : jobs[i].url = jobs[j].url => i = j

\* Threads that can take a step take one, a call of the operator in progress
\* completes, and a process that is running ends
SpecLive ==
    /\ LiveInit
    /\ [][LiveNext]_vars
    /\ WF_vars(ThreadStep)
    /\ WF_vars(PauseOrKillReturns)
    /\ WF_vars(ProcessEnds)
    /\ WF_vars(ServiceStep)

\* Every job of the queue is done or failed
AllJobsEnded == \A j \in JobIds(jobs) : jobs[j].status \in {"done", "failed"}

\* C35: when the worker is not left paused (from some moment on its pause
\* flag stays off), every enqueued job reaches done or failed and stays
\* there: no job stays queued, downloading or transcribing for ever.
C35_QueueDrains == <>[](~rt.paused) => <>[]AllJobsEnded

\* Two jobs have ended, the first killed by the operator and the second
\* done, and the worker is idle and not paused
C35_Witness ==
    /\ Len(jobs) = 2
    /\ AllJobsEnded
    /\ jobs[1].error_text = KILLED_BY_USER
    /\ jobs[2].status = "done"
    /\ rt.current_job_id = NoJob
    /\ ~rt.paused

====
